---- MODULE Spec2Model ----
(***************************************************************************)
(* Multi-User Blog API: users, JWT access/refresh tokens, the access       *)
(* control middleware and the ownership-controlled post service, modelled  *)
(* as a state machine over the user/post store, the clock and the tokens   *)
(* the server has issued.                                                   *)
(***************************************************************************)
EXTENDS Integers, Sequences, FiniteSets, TLC

VARIABLES
    users,    \* users table: id -> [username, email, password_hash, role, is_active]
    posts,    \* posts table: id -> [title, content, author_id]
    issued,   \* tokens signed by the server so far (held by clients)
    now,      \* wall clock, in seconds
    ticks,    \* number of clock advances so far
    resp,     \* the request handled last and its response
    reg       \* in-flight register_user calls of the concurrent workers

vars == <<users, posts, issued, now, ticks, resp, reg>>

---------------------------------------------------------------------------
(* Bounds *)

MaxUsers == 3
MaxPosts == 2
MaxTicks == 1
MaxIssued == 4
MaxHashes == 2

---------------------------------------------------------------------------
(* Program constants *)

\* JWT_ACCESS_TOKEN_EXPIRES / JWT_REFRESH_TOKEN_EXPIRES defaults
AccessTTL == 900
RefreshTTL == 604800

\* PostCreate / PostUpdate field limits
TitleMinLen == 1
TitleMaxLen == 200
ContentMinLen == 10

\* UserRegister field limits
UsernameMinLen == 3
UsernameMaxLen == 50
PasswordMinLen == 8

\* utils/validators.py: the defaults and the ceiling of validate_pagination
DefaultPage == 1
DefaultPerPage == 10
PerPageMax == 100

\* utils/security.py: the number of password bytes bcrypt.hashpw reads
BcryptMaxBytes == 72

None == <<"None">>

---------------------------------------------------------------------------
(* Strings are sequences of one-character strings *)

UpperChars == {"A", "B", "C", "P", "S", "X"}
LowerChars == {"a", "b", "c", "d", "e", "k", "m", "n", "o", "p", "r", "s", "t", "w", "x", "y"}
DigitChars == {"0", "3"}
SpecialChars == {"!", "@", "#", "."}

LowerChar(c) ==
    CASE c = "A" -> "a"
      [] c = "B" -> "b"
      [] c = "C" -> "c"
      [] c = "P" -> "p"
      [] c = "S" -> "s"
      [] c = "X" -> "x"
      [] OTHER -> c

\* str.lower()
Lower(s) == [i \in 1..Len(s) |-> LowerChar(s[i])]

Rep(c, n) == [i \in 1..n |-> c]

Contains(s, c) == \E i \in 1..Len(s) : s[i] = c

Max(S) == CHOOSE m \in S : \A x \in S : x <= m

\* autoincrement primary key of the default SQLite store: largest rowid + 1
NewId(table) == IF DOMAIN table = {} THEN 1 ELSE Max(DOMAIN table) + 1

\* a table with the row `id` inserted or replaced
Put(table, id, row) == [k \in DOMAIN table \cup {id} |-> IF k = id THEN row ELSE table[k]]

\* a table without the rows whose key is in `ids`
Drop(table, ids) == [k \in DOMAIN table \ ids |-> table[k]]

---------------------------------------------------------------------------
(* utils/security.py: bcrypt with a random salt *)

\* the identifier a bcrypt hash starts with
BcryptPrefix == <<"$", "2", "b", "$">>

\* bcrypt.hashpw reads the first BcryptMaxBytes bytes of the password and
\* nothing after them
Truncated(password) ==
    SubSeq(password, 1, IF Len(password) < BcryptMaxBytes THEN Len(password)
                                                         ELSE BcryptMaxBytes)

\* bcrypt.hashpw: the identifier, the salt and a digest, here the bytes
\* read, which stand for a digest that differs whenever they differ
hashpw(password, salt) == BcryptPrefix \o <<ToString(salt)>> \o Truncated(password)

\* the salt a hash carries
SaltOf(hashed) == hashed[Len(BcryptPrefix) + 1]

\* bcrypt.checkpw: hashes the password with the salt of the hash and
\* compares
checkpw(password, hashed) ==
    /\ Len(hashed) > Len(BcryptPrefix)
    /\ SubSeq(hashed, 1, Len(BcryptPrefix)) = BcryptPrefix
    /\ hashed = BcryptPrefix \o <<SaltOf(hashed)>> \o Truncated(password)

\* bcrypt 5 raises ValueError for a password longer than BcryptMaxBytes
\* bytes where earlier releases truncate it; strict tells which one runs
TooLong(password, strict) == strict /\ Len(password) > BcryptMaxBytes

\* bcrypt.checkpw raises ValueError("Invalid salt") for a hash whose
\* identifier or salt it cannot parse
InvalidSalt(hashed) ==
    ~ /\ Len(hashed) > Len(BcryptPrefix)
      /\ SubSeq(hashed, 1, Len(BcryptPrefix)) = BcryptPrefix

\* hash_password that returns the password as given
hash_password_Plain(password, salt) == password

\* hash_password with one salt for every call
hash_password_FixedSalt(password, salt) == hashpw(password, 0)

\* salt stands for the value bcrypt.gensalt() draws
hash_password(password, salt) == hashpw(password, salt)

verify_password(password, password_hash) == checkpw(password, password_hash)

---------------------------------------------------------------------------
(* models: rows and the constraints the store enforces at commit *)

Roles == {"user", "admin"}

User(username, email, password_hash, role, is_active) ==
    [username |-> username, email |-> email, password_hash |-> password_hash,
     role |-> role, is_active |-> is_active]

is_admin(user) == user.role = "admin"

\* created_at and updated_at are filled with the time of the insert
Post(title, content, author_id) ==
    [title |-> title, content |-> content, author_id |-> author_id,
     created_at |-> now, updated_at |-> now]

\* the row an UPDATE leaves: updated_at follows the clock when a column
\* was written with another value, and no statement is sent otherwise
Touched(old, new) == IF new = old THEN old ELSE [new EXCEPT !.updated_at = now]

is_author(post, user_id) == post.author_id = user_id

\* the constraint of the users table that writing `row` as user `self` (0 for
\* a new row) violates at commit, or "none": the two UNIQUE columns, then the
\* CheckConstraints
UserViolation(row, table, self) ==
    IF \E u \in DOMAIN table \ {self} : table[u].username = row.username
      THEN "users.username"
    ELSE IF \E u \in DOMAIN table \ {self} : table[u].email = row.email
      THEN "users.email"
    ELSE IF Len(row.username) < UsernameMinLen THEN "username_min_length"
    ELSE IF ~Contains(row.email, "@") THEN "email_format"
    ELSE IF row.role \notin Roles THEN "valid_role"
    ELSE "none"

\* CheckConstraints of the posts table
PostChecksOK(post) ==
    /\ Len(post.title) > 0
    /\ Len(post.content) >= ContentMinLen

\* the columns named in the text of an INSERT INTO users statement
UserInsertColumns == {"username", "email", "password_hash", "role", "is_active"}

\* the columns named in the text of an UPDATE users SET email=... statement
UserUpdateColumns == {"email"}

\* the column names occurring in the name of a constraint
ConstraintColumns(constraint) ==
    CASE constraint \in {"users.username", "username_min_length"} -> {"username"}
      [] constraint \in {"users.email", "email_format"} -> {"email"}
      [] OTHER -> {}

\* str(IntegrityError), as the set of column names occurring in it: the text
\* names the constraint that failed and quotes the SQL statement
IntegrityErrorText(constraint, statementColumns) ==
    ConstraintColumns(constraint) \cup statementColumns

---------------------------------------------------------------------------
(* services/auth_service.py *)

\* the try block of register_user: insert and commit, with the translation
\* of an IntegrityError
register_commit(row, table) ==
    LET failed == UserViolation(row, table, 0)
        text == IntegrityErrorText(failed, UserInsertColumns)
    IN  IF failed = "none"
          THEN [exc |-> "none", field |-> "none",
                users |-> Put(table, NewId(table), row), id |-> NewId(table)]
        ELSE IF "username" \in text
          THEN [exc |-> "DuplicateUserError", field |-> "username", users |-> table, id |-> 0]
        ELSE IF "email" \in text
          THEN [exc |-> "DuplicateUserError", field |-> "email", users |-> table, id |-> 0]
        ELSE [exc |-> "DatabaseError", field |-> "none", users |-> table, id |-> 0]

\* the pre-flight reads of register_user: the field found taken, or "none"
register_preflight(username, email, table) ==
    IF \E u \in DOMAIN table : table[u].username = Lower(username) THEN "username"
    ELSE IF \E u \in DOMAIN table : table[u].email = Lower(email) THEN "email"
    ELSE "none"

\* register_user that stores the username and the email as typed
register_user_NoLower(username, email, password, role, salt) ==
    LET taken == register_preflight(username, email, users)
        row == User(username, email, hash_password(password, salt), role, TRUE)
    IN  IF taken # "none"
          THEN [exc |-> "DuplicateUserError", field |-> taken, users |-> users, id |-> 0]
          ELSE register_commit(row, users)

register_user(username, email, password, role, salt) ==
    LET taken == register_preflight(username, email, users)
        row == User(Lower(username), Lower(email), hash_password(password, salt), role, TRUE)
    IN  IF taken # "none"
          THEN [exc |-> "DuplicateUserError", field |-> taken, users |-> users, id |-> 0]
          ELSE register_commit(row, users)

\* authenticate_user without the check of is_active
authenticate_user_NoActiveCheck(username, password) ==
    LET found == {u \in DOMAIN users : \/ users[u].username = Lower(username)
                                       \/ users[u].email = Lower(username)}
        id == IF found = {} THEN 0 ELSE CHOOSE u \in found : \A v \in found : u <= v
    IN  IF found = {}
          THEN [exc |-> "AuthenticationError", error |-> "Invalid username or password", id |-> 0]
        ELSE IF ~verify_password(password, users[id].password_hash)
          THEN [exc |-> "AuthenticationError", error |-> "Invalid username or password", id |-> 0]
        ELSE [exc |-> "none", error |-> "none", id |-> id]

\* authenticate_user with a message of its own for an identifier no user has
authenticate_user_TellsUnknown(username, password) ==
    LET found == {u \in DOMAIN users : \/ users[u].username = Lower(username)
                                       \/ users[u].email = Lower(username)}
        id == IF found = {} THEN 0 ELSE CHOOSE u \in found : \A v \in found : u <= v
    IN  IF found = {}
          THEN [exc |-> "AuthenticationError", error |-> "User not found", id |-> 0]
        ELSE IF ~users[id].is_active
          THEN [exc |-> "AuthenticationError", error |-> "Account is inactive", id |-> 0]
        ELSE IF ~verify_password(password, users[id].password_hash)
          THEN [exc |-> "AuthenticationError", error |-> "Invalid username or password", id |-> 0]
        ELSE [exc |-> "none", error |-> "none", id |-> id]

authenticate_user(username, password) ==
    LET found == {u \in DOMAIN users : \/ users[u].username = Lower(username)
                                       \/ users[u].email = Lower(username)}
        id == IF found = {} THEN 0 ELSE CHOOSE u \in found : \A v \in found : u <= v
    IN  IF found = {}
          THEN [exc |-> "AuthenticationError", error |-> "Invalid username or password", id |-> 0]
        ELSE IF ~users[id].is_active
          THEN [exc |-> "AuthenticationError", error |-> "Account is inactive", id |-> 0]
        ELSE IF InvalidSalt(users[id].password_hash)
          THEN [exc |-> "ValueError", error |-> "Invalid salt", id |-> 0]
        ELSE IF ~verify_password(password, users[id].password_hash)
          THEN [exc |-> "AuthenticationError", error |-> "Invalid username or password", id |-> 0]
        ELSE [exc |-> "none", error |-> "none", id |-> id]

\* change_password without the check of the old password
change_password_NoVerify(user_id, old_password, new_password, salt, strict) ==
    IF TooLong(new_password, strict)
      THEN [exc |-> "ValueError", error |-> "none", users |-> users]
    ELSE [exc |-> "none", error |-> "none",
          users |-> Put(users, user_id,
                        [users[user_id] EXCEPT
                           !.password_hash = hash_password(new_password, salt)])]

\* the caller passes the User object; user_id names its row. verify_password
\* and hash_password raise what bcrypt raises, outside the try block
change_password(user_id, old_password, new_password, salt, strict) ==
    IF \/ TooLong(old_password, strict)
       \/ InvalidSalt(users[user_id].password_hash)
      THEN [exc |-> "ValueError", error |-> "none", users |-> users]
    ELSE IF ~verify_password(old_password, users[user_id].password_hash)
      THEN [exc |-> "AuthenticationError", error |-> "Current password is incorrect",
            users |-> users]
    ELSE IF TooLong(new_password, strict)
      THEN [exc |-> "ValueError", error |-> "none", users |-> users]
    ELSE [exc |-> "none", error |-> "none",
          users |-> Put(users, user_id,
                        [users[user_id] EXCEPT
                           !.password_hash = hash_password(new_password, salt)])]

---------------------------------------------------------------------------
(* services/user_service.py *)

get_user_by_id(user_id) ==
    IF user_id \in DOMAIN users THEN "none" ELSE "UserNotFoundError"

\* a value Python treats as true in `if email:` / `if password:`
Truthy(v) == v # None /\ Len(v) > 0

\* update_user that stores the email as typed
update_user_NoLower(user_id, email, password, salt) ==
    IF get_user_by_id(user_id) # "none"
      THEN [exc |-> "UserNotFoundError", field |-> "none", users |-> users]
    ELSE IF /\ Truthy(email)
            /\ \E u \in DOMAIN users \ {user_id} : users[u].email = Lower(email)
      THEN [exc |-> "DuplicateUserError", field |-> "email", users |-> users]
    ELSE
      LET old == users[user_id]
          row == [old EXCEPT !.email = IF Truthy(email) THEN email ELSE @,
                             !.password_hash = IF Truthy(password)
                                                 THEN hash_password(password, salt) ELSE @]
          failed == UserViolation(row, users, user_id)
      IN  IF failed = "none"
            THEN [exc |-> "none", field |-> "none", users |-> Put(users, user_id, row)]
            ELSE [exc |-> "DuplicateUserError", field |-> "email", users |-> users]

update_user(user_id, email, password, salt) ==
    IF get_user_by_id(user_id) # "none"
      THEN [exc |-> "UserNotFoundError", field |-> "none", users |-> users]
    ELSE IF /\ Truthy(email)
            /\ \E u \in DOMAIN users \ {user_id} : users[u].email = Lower(email)
      THEN [exc |-> "DuplicateUserError", field |-> "email", users |-> users]
    ELSE
      LET old == users[user_id]
          row == [old EXCEPT !.email = IF Truthy(email) THEN Lower(email) ELSE @,
                             !.password_hash = IF Truthy(password)
                                                 THEN hash_password(password, salt) ELSE @]
          failed == UserViolation(row, users, user_id)
          text == IntegrityErrorText(failed, IF Truthy(email) THEN UserUpdateColumns ELSE {})
      IN  IF failed = "none"
            THEN [exc |-> "none", field |-> "none", users |-> Put(users, user_id, row)]
          ELSE IF "email" \in text
            THEN [exc |-> "DuplicateUserError", field |-> "email", users |-> users]
          ELSE [exc |-> "DatabaseError", field |-> "none", users |-> users]

deactivate_user(user_id) ==
    IF get_user_by_id(user_id) # "none"
      THEN [exc |-> "UserNotFoundError", users |-> users]
      ELSE [exc |-> "none", users |-> Put(users, user_id, [users[user_id] EXCEPT !.is_active = FALSE])]

---------------------------------------------------------------------------
(* utils/validators.py: the values a caller can pass are None, integers
   and strings *)

PyNone == [type |-> "NoneType", int |-> 0, str |-> << >>]

PyInt(n) == [type |-> "int", int |-> n, str |-> << >>]

PyStr(s) == [type |-> "str", int |-> 0, str |-> s]

Digits == <<"0", "1", "2", "3", "4", "5", "6", "7", "8", "9">>

DigitValue(c) == (CHOOSE i \in 1..Len(Digits) : Digits[i] = c) - 1

RECURSIVE DecimalValue(_)
DecimalValue(s) ==
    IF Len(s) = 0 THEN 0
    ELSE 10 * DecimalValue(SubSeq(s, 1, Len(s) - 1)) + DigitValue(s[Len(s)])

\* int(v): an integer as it is, a string of decimal digits parsed, ValueError
\* for a string that holds anything else (the strings drawn hold no sign,
\* blank or underscore), TypeError for None
py_int(v) ==
    IF v.type = "int" THEN [exc |-> "none", value |-> v.int]
    ELSE IF v.type = "str"
      THEN IF Len(v.str) > 0 /\ \A i \in 1..Len(v.str) : Contains(Digits, v.str[i])
             THEN [exc |-> "none", value |-> DecimalValue(v.str)]
             ELSE [exc |-> "ValueError", value |-> 0]
    ELSE [exc |-> "TypeError", value |-> 0]

\* validate_pagination that checks per_page before page
validate_pagination_PerPageFirst(page, per_page) ==
    LET p == py_int(IF page # PyNone THEN page ELSE PyInt(DefaultPage))
        pp == py_int(IF per_page # PyNone THEN per_page ELSE PyInt(DefaultPerPage))
        failure(field) == [exc |-> "ValidationError", field |-> field, page |-> 0, per_page |-> 0]
    IN  IF pp.exc # "none" THEN failure("per_page")
        ELSE IF pp.value < 1 THEN failure("per_page")
        ELSE IF pp.value > PerPageMax THEN failure("per_page")
        ELSE IF p.exc # "none" THEN failure("page")
        ELSE IF p.value < 1 THEN failure("page")
        ELSE [exc |-> "none", field |-> "none", page |-> p.value, per_page |-> pp.value]

validate_pagination(page, per_page) ==
    LET p == py_int(IF page # PyNone THEN page ELSE PyInt(DefaultPage))
        pp == py_int(IF per_page # PyNone THEN per_page ELSE PyInt(DefaultPerPage))
        failure(field) == [exc |-> "ValidationError", field |-> field, page |-> 0, per_page |-> 0]
    IN  IF p.exc # "none" THEN failure("page")
        ELSE IF p.value < 1 THEN failure("page")
        ELSE IF pp.exc # "none" THEN failure("per_page")
        ELSE IF pp.value < 1 THEN failure("per_page")
        ELSE IF pp.value > PerPageMax THEN failure("per_page")
        ELSE [exc |-> "none", field |-> "none", page |-> p.value, per_page |-> pp.value]

---------------------------------------------------------------------------
(* services/post_service.py *)

\* the rows ordered by created_at ascending
NewestFirst_OldestFirst ==
    {o \in [1..Cardinality(DOMAIN posts) -> DOMAIN posts] :
       /\ \A i, j \in DOMAIN o : i # j => o[i] # o[j]
       /\ \A i, j \in DOMAIN o : i < j => posts[o[i]].created_at <= posts[o[j]].created_at}

\* the orders ORDER BY created_at DESC can return the posts in: rows with
\* the same created_at come in any order
NewestFirst ==
    {o \in [1..Cardinality(DOMAIN posts) -> DOMAIN posts] :
       /\ \A i, j \in DOMAIN o : i # j => o[i] # o[j]
       /\ \A i, j \in DOMAIN o : i < j => posts[o[i]].created_at >= posts[o[j]].created_at}

\* paginate whose page count rounds down
paginate_FloorPages(order, page, per_page) ==
    LET total == Len(order)
        first == (page - 1) * per_page + 1
        last == IF page * per_page < total THEN page * per_page ELSE total
    IN  [items |-> SubSeq(order, first, last),
         total |-> total,
         pages |-> total \div per_page]

\* Query.paginate(page, per_page, error_out=False) over the rows in `order`
paginate(order, page, per_page) ==
    LET total == Len(order)
        first == (page - 1) * per_page + 1
        last == IF page * per_page < total THEN page * per_page ELSE total
    IN  [items |-> SubSeq(order, first, last),
         total |-> total,
         pages |-> IF total = 0 THEN 0 ELSE (total + per_page - 1) \div per_page]

\* queried tells whether the query was sent to the store
get_all_posts(page, per_page, order) ==
    LET v == validate_pagination(page, per_page)
        paginated == paginate(order, v.page, v.per_page)
    IN  IF v.exc # "none"
          THEN [exc |-> v.exc, field |-> v.field, queried |-> FALSE, items |-> << >>,
                total |-> 0, page |-> 0, per_page |-> 0, pages |-> 0]
          ELSE [exc |-> "none", field |-> "none", queried |-> TRUE, items |-> paginated.items,
                total |-> paginated.total, page |-> v.page, per_page |-> v.per_page,
                pages |-> paginated.pages]

get_post_by_id(post_id) ==
    IF post_id \in DOMAIN posts THEN "none" ELSE "PostNotFoundError"

create_post(title, content, author_id) ==
    LET row == Post(title, content, author_id)
    IN  IF PostChecksOK(row)
          THEN [exc |-> "none", posts |-> Put(posts, NewId(posts), row), id |-> NewId(posts)]
          ELSE [exc |-> "DatabaseError", posts |-> posts, id |-> 0]

\* update_post with the admin bypass of delete_post
update_post_AdminBypass(post_id, user_id, title, content) ==
    IF get_post_by_id(post_id) # "none"
      THEN [exc |-> "PostNotFoundError", posts |-> posts]
    ELSE IF users[user_id].role # "admin" /\ ~is_author(posts[post_id], user_id)
      THEN [exc |-> "AuthorizationError", posts |-> posts]
    ELSE
      LET row == [posts[post_id] EXCEPT !.title = IF title # None THEN title ELSE @,
                                        !.content = IF content # None THEN content ELSE @]
      IN  [exc |-> "none", posts |-> Put(posts, post_id, Touched(posts[post_id], row))]

\* update_post that writes None into a field that was not provided
update_post_WritesNone(post_id, user_id, title, content) ==
    IF get_post_by_id(post_id) # "none"
      THEN [exc |-> "PostNotFoundError", posts |-> posts]
    ELSE IF ~is_author(posts[post_id], user_id)
      THEN [exc |-> "AuthorizationError", posts |-> posts]
    ELSE
      LET row == [posts[post_id] EXCEPT !.title = title, !.content = content]
      IN  [exc |-> "none", posts |-> Put(posts, post_id, Touched(posts[post_id], row))]

update_post(post_id, user_id, title, content) ==
    IF get_post_by_id(post_id) # "none"
      THEN [exc |-> "PostNotFoundError", posts |-> posts]
    ELSE IF ~is_author(posts[post_id], user_id)
      THEN [exc |-> "AuthorizationError", posts |-> posts]
    ELSE
      LET row == [posts[post_id] EXCEPT !.title = IF title # None THEN title ELSE @,
                                        !.content = IF content # None THEN content ELSE @]
      IN  IF PostChecksOK(row)
            THEN [exc |-> "none", posts |-> Put(posts, post_id, Touched(posts[post_id], row))]
            ELSE [exc |-> "DatabaseError", posts |-> posts]

\* delete_post without the admin clause
delete_post_OwnerOnly(post_id, user_id, user_role) ==
    IF get_post_by_id(post_id) # "none"
      THEN [exc |-> "PostNotFoundError", posts |-> posts, post |-> None]
    ELSE IF ~is_author(posts[post_id], user_id)
      THEN [exc |-> "AuthorizationError", posts |-> posts, post |-> None]
    ELSE [exc |-> "none", posts |-> Drop(posts, {post_id}), post |-> posts[post_id]]

\* delete_post that removes every post of the author of the post
delete_post_WholeAuthor(post_id, user_id, user_role) ==
    IF get_post_by_id(post_id) # "none"
      THEN [exc |-> "PostNotFoundError", posts |-> posts, post |-> None]
    ELSE IF user_role # "admin" /\ ~is_author(posts[post_id], user_id)
      THEN [exc |-> "AuthorizationError", posts |-> posts, post |-> None]
    ELSE [exc |-> "none",
          posts |-> Drop(posts, {p \in DOMAIN posts :
                                   posts[p].author_id = posts[post_id].author_id}),
          post |-> posts[post_id]]

\* post is the row loaded before the delete, which the caller gets back
delete_post(post_id, user_id, user_role) ==
    IF get_post_by_id(post_id) # "none"
      THEN [exc |-> "PostNotFoundError", posts |-> posts, post |-> None]
    ELSE IF user_role # "admin" /\ ~is_author(posts[post_id], user_id)
      THEN [exc |-> "AuthorizationError", posts |-> posts, post |-> None]
    ELSE [exc |-> "none", posts |-> Drop(posts, {post_id}), post |-> posts[post_id]]

---------------------------------------------------------------------------
(* Tokens (flask_jwt_extended): the Authorization header of a request *)

Token(kind, sub, iat, sig) ==
    [form |-> "jwt", kind |-> kind, sub |-> sub, iat |-> iat, sig |-> sig]

\* a request without an Authorization header
NoToken == [form |-> "none", kind |-> "none", sub |-> 0, iat |-> 0, sig |-> "none"]

\* a header whose token is not a JWT
MalformedToken == [form |-> "malformed", kind |-> "none", sub |-> 0, iat |-> 0, sig |-> "none"]

create_access_token(identity) == Token("access", identity, now, "server")

create_refresh_token(identity) == Token("refresh", identity, now, "server")

\* one lifetime for both kinds of token
TokenTTL_SameForBoth(kind) == AccessTTL

\* JWT_ACCESS_TOKEN_EXPIRES / JWT_REFRESH_TOKEN_EXPIRES
TokenTTL(kind) == IF kind = "refresh" THEN RefreshTTL ELSE AccessTTL

\* the exp claim: issued-at plus the configured lifetime of the kind
TokenExp(tok) == tok.iat + TokenTTL(tok.kind)

\* verify_jwt_in_request that accepts a token of either type
verify_jwt_in_request_AnyType(tok, refresh) ==
    IF tok.form = "none" THEN "NoAuthorizationError"
    ELSE IF tok.form = "malformed" THEN "DecodeError"
    ELSE IF tok.sig # "server" THEN "InvalidSignatureError"
    ELSE IF tok.iat + TokenTTL(tok.kind) <= now THEN "ExpiredSignatureError"
    ELSE "ok"

\* verify_jwt_in_request(refresh=...): "ok" or the exception it raises.
\* The token is decoded (signature, then exp: a token is expired from the
\* second exp on) before its type is compared with the expected one.
verify_jwt_in_request(tok, refresh) ==
    IF tok.form = "none" THEN "NoAuthorizationError"
    ELSE IF tok.form = "malformed" THEN "DecodeError"
    ELSE IF tok.sig # "server" THEN "InvalidSignatureError"
    ELSE IF TokenExp(tok) <= now THEN "ExpiredSignatureError"
    ELSE IF tok.kind # (IF refresh THEN "refresh" ELSE "access") THEN "WrongTokenError"
    ELSE "ok"

get_jwt_identity(tok) == tok.sub

---------------------------------------------------------------------------
(* The outcome of a view function: a response, or an exception that escaped *)

\* uid and pid are the user id and the post id the view handed to the service
\* (0 when it called none); toks are the tokens in the response body
Done(status, exc, error, u, p, uid, pid, toks) ==
    [raised |-> FALSE, status |-> status, exc |-> exc, error |-> error,
     users |-> u, posts |-> p, uid |-> uid, pid |-> pid, tokens |-> toks]

Raised(exc, u, p) ==
    [raised |-> TRUE, status |-> 0, exc |-> exc, error |-> exc,
     users |-> u, posts |-> p, uid |-> 0, pid |-> 0, tokens |-> {}]

\* app.py: an exception no handler is registered for ends in the 500 handler
internal_error(h) ==
    Done(500, h.exc, "Internal server error", h.users, h.posts, 0, 0, {})

\* app.py: the JWTManager loaders, which answer the exceptions
\* flask_jwt_extended raises itself
jwt_error_response(failure) ==
    CASE failure = "ExpiredSignatureError" ->
           Done(401, failure, "Token has expired", users, posts, 0, 0, {})
      [] failure = "NoAuthorizationError" ->
           Done(401, failure, "Authorization required", users, posts, 0, 0, {})
      [] OTHER ->
           Done(401, failure, "Invalid token", users, posts, 0, 0, {})

---------------------------------------------------------------------------
(* middleware/auth.py *)

\* get_current_user without the check of is_active
get_current_user_NoActiveCheck(tok) ==
    IF verify_jwt_in_request(tok, FALSE) # "ok"
      THEN [exc |-> "AuthenticationError", error |-> "Invalid or expired token", id |-> 0]
    ELSE IF get_jwt_identity(tok) \notin DOMAIN users
      THEN [exc |-> "UserNotFoundError", error |-> "User not found", id |-> 0]
    ELSE [exc |-> "none", error |-> "none", id |-> get_jwt_identity(tok)]

get_current_user(tok) ==
    IF verify_jwt_in_request(tok, FALSE) # "ok"
      THEN [exc |-> "AuthenticationError", error |-> "Invalid or expired token", id |-> 0]
    ELSE IF get_jwt_identity(tok) \notin DOMAIN users
      THEN [exc |-> "UserNotFoundError", error |-> "User not found", id |-> 0]
    ELSE IF ~users[get_jwt_identity(tok)].is_active
      THEN [exc |-> "AuthenticationError", error |-> "Account is inactive", id |-> 0]
    ELSE [exc |-> "none", error |-> "none", id |-> get_jwt_identity(tok)]

\* the wrapper of @jwt_required around the outcome `h` of the view: whatever
\* exception verify_jwt_in_request or the view raises is replaced by an
\* AuthenticationError, which the wrapper raises out of the view
jwt_required(tok, h) ==
    IF verify_jwt_in_request(tok, FALSE) # "ok"
      THEN internal_error(Raised("AuthenticationError", users, posts))
    ELSE IF h.raised
      THEN internal_error(Raised("AuthenticationError", h.users, h.posts))
    ELSE h

\* optional_jwt that answers a token it cannot verify like the loaders do
optional_jwt_Rejects(tok, fn) ==
    LET verified == IF tok.form = "none" THEN "ok" ELSE verify_jwt_in_request(tok, FALSE)
    IN  IF verified = "ok"
          THEN [calls |-> 1, verified |-> verified, response |-> fn]
          ELSE [calls |-> 0, verified |-> verified, response |-> jwt_error_response(verified)]

\* the wrapper of @optional_jwt around the outcome `fn` of the view:
\* verify_jwt_in_request(optional=True) lets a request without a token
\* pass, whatever it raises for a token is discarded, and the view is
\* called; calls counts the calls of the view
optional_jwt(tok, fn) ==
    LET verified == IF tok.form = "none" THEN "ok" ELSE verify_jwt_in_request(tok, FALSE)
    IN  [calls |-> 1, verified |-> verified, response |-> fn]

\* the view of the docstring of optional_jwt: it greets the current user,
\* or a guest when get_current_user raises
optional_route(tok) ==
    LET cu == get_current_user(tok)
    IN  Done(200, "none", "none", users, posts, cu.id, 0, {})

\* admin_required without the check of the role
admin_required_NoRoleCheck(tok, h) ==
    IF verify_jwt_in_request(tok, FALSE) # "ok"
      THEN Raised("AuthenticationError", users, posts)
    ELSE IF get_current_user(tok).exc # "none"
      THEN Raised("AuthenticationError", users, posts)
    ELSE IF h.raised /\ h.exc # "AuthorizationError"
      THEN Raised("AuthenticationError", h.users, h.posts)
    ELSE h

\* the wrapper of @admin_required around the outcome `h` of the view: an
\* AuthorizationError is raised as it is, any other exception, of the
\* verification, of get_current_user or of the view, as an
\* AuthenticationError
admin_required(tok, h) ==
    IF verify_jwt_in_request(tok, FALSE) # "ok"
      THEN Raised("AuthenticationError", users, posts)
    ELSE IF get_current_user(tok).exc # "none"
      THEN Raised("AuthenticationError", users, posts)
    ELSE IF ~is_admin(users[get_current_user(tok).id])
      THEN Raised("AuthorizationError", users, posts)
    ELSE IF h.raised /\ h.exc # "AuthorizationError"
      THEN Raised("AuthenticationError", h.users, h.posts)
    ELSE h

\* the view of the docstring of admin_required
admin_route == Done(200, "none", "Admin access granted", users, posts, 0, 0, {})

\* a request to a route registered as in that docstring: what the wrapper
\* raises goes to the handlers of the app
admin_route_request(tok) ==
    LET h == admin_required(tok, admin_route)
    IN  IF h.raised THEN internal_error(h) ELSE h

---------------------------------------------------------------------------
(* schemas: the Pydantic validation of the request bodies *)

HasChar(s, class) == \E i \in 1..Len(s) : s[i] \in class

\* EmailStr: a local part, one "@", a domain
ValidEmail(e) ==
    /\ Cardinality({i \in 1..Len(e) : e[i] = "@"}) = 1
    /\ e[1] # "@"
    /\ e[Len(e)] # "@"

StrongPassword(p) ==
    /\ Len(p) >= PasswordMinLen
    /\ HasChar(p, UpperChars)
    /\ HasChar(p, LowerChars)
    /\ HasChar(p, DigitChars)
    /\ HasChar(p, SpecialChars)

UserRegisterValid(username, email, password) ==
    /\ username # None /\ email # None /\ password # None
    /\ Len(username) >= UsernameMinLen
    /\ Len(username) <= UsernameMaxLen
    /\ \A i \in 1..Len(username) : username[i] \in UpperChars \cup LowerChars \cup DigitChars \cup {"_"}
    /\ ValidEmail(email)
    /\ StrongPassword(password)

UserUpdateValid(email, password) ==
    /\ email = None \/ ValidEmail(email)
    /\ password = None \/ StrongPassword(password)

PostCreateValid(title, content) ==
    /\ title # None /\ content # None
    /\ Len(title) >= TitleMinLen
    /\ Len(title) <= TitleMaxLen
    /\ Len(content) >= ContentMinLen

PostUpdateValid(title, content) ==
    /\ title = None \/ (Len(title) >= TitleMinLen /\ Len(title) <= TitleMaxLen)
    /\ content = None \/ Len(content) >= ContentMinLen

---------------------------------------------------------------------------
(* routes/auth_routes.py *)

NotJson == Done(400, "none", "Content-Type must be application/json", users, posts, 0, 0, {})

register(is_json, username, email, password, salt) ==
    IF ~is_json THEN NotJson
    ELSE IF ~UserRegisterValid(username, email, password)
      THEN Done(400, "PydanticValidationError", "validation", users, posts, 0, 0, {})
    ELSE
      LET r == register_user(Lower(username), email, password, "user", salt)
      IN  IF r.exc = "DuplicateUserError"
            THEN Done(400, r.exc, r.field, users, posts, 0, 0, {})
          ELSE IF r.exc = "DatabaseError"
            THEN Done(500, r.exc, "Failed to create user", users, posts, 0, 0, {})
          ELSE Done(201, "none", "User registered successfully", r.users, posts, r.id, 0,
                    {create_access_token(r.id), create_refresh_token(r.id)})

\* POST /auth/register that hands the role of the body to register_user
register_request_TrustsBody(body, salt) ==
    IF ~UserRegisterValid(body.username, body.email, body.password)
      THEN Done(400, "PydanticValidationError", "validation", users, posts, 0, 0, {})
    ELSE
      LET taken == {u \in DOMAIN users : \/ users[u].username = Lower(body.username)
                                          \/ users[u].email = Lower(body.email)}
          id == IF users = << >> THEN 1
                ELSE 1 + CHOOSE m \in DOMAIN users : \A k \in DOMAIN users : k <= m
          row == [username |-> Lower(body.username), email |-> Lower(body.email),
                  password_hash |-> <<"$", "2", "b", "$">> \o <<ToString(salt)>> \o body.password,
                  role |-> body.role, is_active |-> TRUE]
      IN  IF taken # {}
            THEN Done(400, "DuplicateUserError", "taken", users, posts, 0, 0, {})
            ELSE Done(201, "none", "User registered successfully",
                      [k \in DOMAIN users \cup {id} |-> IF k = id THEN row ELSE users[k]],
                      posts, id, 0, {})

\* POST /auth/register with a JSON body that carries a role next to the
\* fields UserRegister declares: UserRegister(**body) keeps the declared
\* ones, and the view calls register_user without a role
register_request(body, salt) ==
    register(TRUE, body.username, body.email, body.password, salt)

login(is_json, username, password) ==
    IF ~is_json THEN NotJson
    ELSE IF username = None \/ password = None
      THEN Done(400, "PydanticValidationError", "validation", users, posts, 0, 0, {})
    ELSE
      LET r == authenticate_user(username, password)
      IN  IF r.exc = "AuthenticationError"
            THEN Done(401, r.exc, r.error, users, posts, 0, 0, {})
          ELSE IF r.exc # "none"
            THEN internal_error(Raised(r.exc, users, posts))
          ELSE Done(200, "none", "none", users, posts, r.id, 0,
                    {create_access_token(r.id), create_refresh_token(r.id)})

\* refresh without the check of is_active
refresh_NoActiveCheck(tok) ==
    IF verify_jwt_in_request(tok, TRUE) # "ok"
      THEN jwt_error_response(verify_jwt_in_request(tok, TRUE))
    ELSE IF get_user_by_id(get_jwt_identity(tok)) # "none"
      THEN Done(401, "UserNotFoundError", "Invalid or expired refresh token", users, posts, 0, 0, {})
    ELSE Done(200, "none", "none", users, posts, get_jwt_identity(tok), 0,
              {create_access_token(get_jwt_identity(tok))})

\* POST /auth/refresh, behind flask_jwt_extended's own jwt_required(refresh=True)
refresh(tok) ==
    IF verify_jwt_in_request(tok, TRUE) # "ok"
      THEN jwt_error_response(verify_jwt_in_request(tok, TRUE))
    ELSE IF get_user_by_id(get_jwt_identity(tok)) # "none"
      THEN Done(401, "UserNotFoundError", "Invalid or expired refresh token", users, posts, 0, 0, {})
    ELSE IF ~users[get_jwt_identity(tok)].is_active
      THEN Done(401, "none", "Account is inactive", users, posts, 0, 0, {})
    ELSE Done(200, "none", "none", users, posts, get_jwt_identity(tok), 0,
              {create_access_token(get_jwt_identity(tok))})

---------------------------------------------------------------------------
(* routes/user_routes.py *)

\* the outcome of get_current_user() inside a view that catches
\* AuthenticationError only
CurrentUserFailure(cu) ==
    IF cu.exc = "AuthenticationError"
      THEN Done(401, cu.exc, cu.error, users, posts, 0, 0, {})
      ELSE Raised(cu.exc, users, posts)

get_profile(tok) ==
    jwt_required(tok,
      LET cu == get_current_user(tok)
      IN  IF cu.exc # "none" THEN CurrentUserFailure(cu)
          ELSE Done(200, "none", "none", users, posts, cu.id, 0, {}))

update_profile(tok, is_json, email, password, salt) ==
    jwt_required(tok,
      IF ~is_json THEN NotJson
      ELSE
        LET cu == get_current_user(tok)
        IN  IF cu.exc # "none" THEN CurrentUserFailure(cu)
            ELSE IF ~UserUpdateValid(email, password)
              THEN Done(400, "PydanticValidationError", "validation", users, posts, 0, 0, {})
            ELSE
              LET r == update_user(cu.id, email, password, salt)
              IN  IF r.exc = "DuplicateUserError"
                    THEN Done(400, r.exc, r.field, users, posts, cu.id, 0, {})
                  ELSE IF r.exc = "DatabaseError"
                    THEN Done(500, r.exc, "Failed to update user", users, posts, cu.id, 0, {})
                  ELSE IF r.exc = "UserNotFoundError"
                    THEN Raised(r.exc, users, posts)
                  ELSE Done(200, "none", "Profile updated successfully", r.users, posts, cu.id, 0, {}))

\* PUT /users/profile with a JSON body that carries a username and a role
\* next to the fields UserUpdate declares
update_profile_request(tok, body, salt) ==
    update_profile(tok, TRUE, body.email, body.password, salt)

---------------------------------------------------------------------------
(* routes/post_routes.py *)

create_post_view(tok, is_json, title, content) ==
    jwt_required(tok,
      IF ~is_json THEN NotJson
      ELSE
        LET cu == get_current_user(tok)
        IN  IF cu.exc # "none" THEN CurrentUserFailure(cu)
            ELSE IF ~PostCreateValid(title, content)
              THEN Done(400, "PydanticValidationError", "validation", users, posts, 0, 0, {})
            ELSE
              LET r == create_post(title, content, cu.id)
              IN  IF r.exc = "DatabaseError"
                    THEN Done(500, r.exc, "Failed to create post", users, posts, cu.id, 0, {})
                    ELSE Done(201, "none", "Post created successfully", users, r.posts, cu.id, r.id, {}))

update_post_view(tok, post_id, is_json, title, content) ==
    jwt_required(tok,
      IF ~is_json THEN NotJson
      ELSE
        LET cu == get_current_user(tok)
        IN  IF cu.exc # "none" THEN CurrentUserFailure(cu)
            ELSE IF ~PostUpdateValid(title, content)
              THEN Done(400, "PydanticValidationError", "validation", users, posts, 0, 0, {})
            ELSE
              LET r == update_post(post_id, cu.id, title, content)
              IN  IF r.exc = "PostNotFoundError"
                    THEN Done(404, r.exc, "Post not found", users, posts, cu.id, post_id, {})
                  ELSE IF r.exc = "AuthorizationError"
                    THEN Done(403, r.exc, "You can only update your own posts", users, posts, cu.id, post_id, {})
                  ELSE IF r.exc = "DatabaseError"
                    THEN Done(500, r.exc, "Failed to update post", users, posts, cu.id, post_id, {})
                  ELSE Done(200, "none", "Post updated successfully", users, r.posts, cu.id, post_id, {}))

\* POST /posts that takes the author from the body
create_post_request_TrustsBody(tok, body) ==
    jwt_required(tok,
      LET cu == get_current_user(tok)
      IN  IF cu.exc # "none" THEN CurrentUserFailure(cu)
          ELSE IF ~PostCreateValid(body.title, body.content)
            THEN Done(400, "PydanticValidationError", "validation", users, posts, 0, 0, {})
          ELSE
            LET r == create_post(body.title, body.content, body.author_id)
            IN  IF r.exc = "DatabaseError"
                  THEN Done(500, r.exc, "Failed to create post", users, posts, body.author_id, 0, {})
                  ELSE Done(201, "none", "Post created successfully", users, r.posts,
                            body.author_id, r.id, {}))

\* POST /posts with a JSON body that carries an author_id next to the title
\* and the content: PostCreate(**body) keeps the fields it declares
create_post_request(tok, body) == create_post_view(tok, TRUE, body.title, body.content)

\* PUT /posts/{id} with a JSON body that carries an author_id: PostUpdate
\* keeps the fields it declares
update_post_request(tok, post_id, body) ==
    update_post_view(tok, post_id, TRUE, body.title, body.content)

delete_post_view(tok, post_id) ==
    jwt_required(tok,
      LET cu == get_current_user(tok)
      IN  IF cu.exc # "none" THEN CurrentUserFailure(cu)
          ELSE
            LET r == delete_post(post_id, cu.id, users[cu.id].role)
            IN  IF r.exc = "PostNotFoundError"
                  THEN Done(404, r.exc, "Post not found", users, posts, cu.id, post_id, {})
                ELSE IF r.exc = "AuthorizationError"
                  THEN Done(403, r.exc, "You can only delete your own posts", users, posts, cu.id, post_id, {})
                ELSE Done(200, "none", <<"Post", r.post.title, "deleted successfully">>,
                          users, r.posts, cu.id, post_id, {}))

---------------------------------------------------------------------------
(* The inputs the requests are drawn from *)

Amy == <<"a", "m", "y">>
AmyCaps == <<"A", "m", "y">>
Bob == <<"B", "o", "b">>
Adm == <<"a", "d", "m">>

AmyMail == <<"a", "@", "x">>
AmyMailCaps == <<"A", "@", "X">>
BobMail == <<"b", "@", "x">>
BobMailCaps == <<"B", "@", "x">>
NoAtMail == <<"c", "c", "x">>
AdmMail == <<"r", "@", "x">>

Pw1 == <<"P", "a", "s", "s", "w", "0", "r", "!">>
Pw2 == <<"S", "e", "c", "r", "3", "t", "!", "X">>
WeakPw == <<"w", "e", "a", "k">>

Title1 == <<"t">>
Title2 == <<"n", "e", "w">>
Content1 == Rep("c", ContentMinLen)
Content2 == Rep("d", ContentMinLen + 1)
ShortContent == Rep("c", ContentMinLen - 1)

\* passwords of BcryptMaxBytes characters and of one more
LongPw == Pw1 \o Rep("a", BcryptMaxBytes - Len(Pw1))
LongPwA == LongPw \o <<"a">>
LongPwB == LongPw \o <<"b">>

\* a title of one blank, and titles at and above the maximal length
BlankTitle == <<" ">>
LongestTitle == Rep("t", TitleMaxLen)
TooLongTitle == Rep("t", TitleMaxLen + 1)

\* a validly shaped access token for user 1, signed with another key
ForgedToken == Token("access", 1, 0, "other")

\* what a client can put in the Authorization header
Presentable == issued \cup {NoToken, MalformedToken, ForgedToken}

\* a worker that has not called register_user
NoReg == [pc |-> "idle", username |-> None, email |-> None, passed |-> FALSE,
          exc |-> "none", field |-> "none"]

Workers == {1, 2}

---------------------------------------------------------------------------
(* State machine *)

Response(op, tok, h) ==
    [op |-> op, tok |-> tok, status |-> h.status, exc |-> h.exc, error |-> h.error,
     uid |-> h.uid, pid |-> h.pid, out |-> h.tokens, args |-> << >>]

\* the record of a step that is not an HTTP request
NoResponse(op) ==
    [op |-> op, tok |-> NoToken, status |-> 0, exc |-> "none", error |-> "none",
     uid |-> 0, pid |-> 0, out |-> {}, args |-> << >>]

\* one request handled from start to end; args is what the body carried
HandleBody(op, tok, h, args) ==
    /\ DOMAIN h.users \subseteq 1..MaxUsers
    /\ DOMAIN h.posts \subseteq 1..MaxPosts
    /\ Cardinality(issued \cup h.tokens) <= MaxIssued
    /\ users' = h.users
    /\ posts' = h.posts
    /\ issued' = issued \cup h.tokens
    /\ resp' = [Response(op, tok, h) EXCEPT !.args = args]
    /\ UNCHANGED <<now, ticks, reg>>

Handle(op, tok, h) == HandleBody(op, tok, h, << >>)

Register(is_json, username, email, password, salt) ==
    HandleBody("register", NoToken, register(is_json, username, email, password, salt),
               <<username, email, password>>)

Login(is_json, username, password) ==
    Handle("login", NoToken, login(is_json, username, password))

Refresh(tok) == Handle("refresh", tok, refresh(tok))

GetProfile(tok) == Handle("get_profile", tok, get_profile(tok))

UpdateProfile(tok, is_json, email, password, salt) ==
    Handle("update_profile", tok, update_profile(tok, is_json, email, password, salt))

CreatePost(tok, is_json, title, content) ==
    Handle("create_post", tok, create_post_view(tok, is_json, title, content))

UpdatePost(tok, post_id, is_json, title, content) ==
    Handle("update_post", tok, update_post_view(tok, post_id, is_json, title, content))

DeletePost(tok, post_id) ==
    Handle("delete_post", tok, delete_post_view(tok, post_id))

\* UserService.deactivate_user, called outside any route
DeactivateUser(user_id) ==
    /\ users' = deactivate_user(user_id).users
    /\ resp' = [NoResponse("deactivate_user") EXCEPT !.exc = deactivate_user(user_id).exc,
                                                     !.uid = user_id]
    /\ UNCHANGED <<posts, issued, now, ticks, reg>>

\* a removal of the user's row that leaves the posts table alone
DeleteUser_KeepsPosts(user_id) ==
    /\ user_id \in DOMAIN users
    /\ users' = Drop(users, {user_id})
    /\ resp' = [NoResponse("delete_user") EXCEPT !.uid = user_id]
    /\ UNCHANGED <<posts, issued, now, ticks, reg>>

\* db.session.delete(user): the posts relationship cascades to the user's posts
DeleteUser(user_id) ==
    /\ user_id \in DOMAIN users
    /\ users' = Drop(users, {user_id})
    /\ posts' = Drop(posts, {p \in DOMAIN posts : posts[p].author_id = user_id})
    /\ resp' = [NoResponse("delete_user") EXCEPT !.uid = user_id]
    /\ UNCHANGED <<issued, now, ticks, reg>>

\* the clock advances by d seconds
Tick(d) ==
    /\ ticks < MaxTicks
    /\ now' = now + d
    /\ ticks' = ticks + 1
    /\ resp' = NoResponse("tick")
    /\ UNCHANGED <<users, posts, issued, reg>>

Admin == User(Adm, AdmMail, hash_password(Pw1, 1), "admin", TRUE)
AmyUser == User(Amy, AmyMail, hash_password(Pw1, 1), "user", TRUE)
BobUser == User(Lower(Bob), BobMail, hash_password(Pw2, 1), "user", TRUE)

-------------------------------------------------------------------------------------------------------------------------------------------------
(* Spec: the post routes, called by the admin and two users who have logged
   in at time 0 *)

Init ==
    /\ users = (1 :> Admin @@ 2 :> AmyUser @@ 3 :> BobUser)
    /\ posts = << >>
    /\ issued = {Token("access", 1, 0, "server"), Token("access", 2, 0, "server"),
                 Token("access", 3, 0, "server")}
    /\ now = 0
    /\ ticks = 0
    /\ resp = NoResponse("init")
    /\ reg = [w \in Workers |-> NoReg]

Next ==
    \/ \E tok \in issued, j \in BOOLEAN, c \in {Content1, ShortContent} :
          CreatePost(tok, j, Title1, c)
    \/ \E tok \in issued, id \in 1..MaxPosts, j \in BOOLEAN,
          t \in {None, Title2}, c \in {None, Content2} :
          UpdatePost(tok, id, j, t, c)
    \/ \E tok \in issued, id \in 1..MaxPosts : DeletePost(tok, id)

Spec == Init /\ [][Next]_vars

---------------------------------------------------------------------------
(* Ownership of posts *)

\* C1: update_post on an existing post by a user who is not its author fails
\* with AuthorizationError, whatever the role of that user, and leaves the
\* stored posts as they were.
C1_UpdateByNonAuthorFails ==
    [][(/\ resp'.op = "update_post"
        /\ resp'.uid # 0
        /\ resp'.pid \in DOMAIN posts
        /\ posts[resp'.pid].author_id # resp'.uid)
       => (resp'.exc = "AuthorizationError" /\ posts' = posts)]_vars

\* the admin was refused the update of a post of another user
C1_Witness ==
    /\ resp.op = "update_post"
    /\ resp.exc = "AuthorizationError"
    /\ resp.status = 403
    /\ users[resp.uid].role = "admin"
    /\ posts[resp.pid].author_id # resp.uid

\* C2: delete_post on an existing post removes it if and only if the acting
\* role is admin or the acting user is the author; otherwise it fails with
\* AuthorizationError and the post stays in the store.
C2_DeleteIffAdminOrAuthor ==
    [][(/\ resp'.op = "delete_post"
        /\ resp'.uid # 0
        /\ resp'.pid \in DOMAIN posts)
       => IF users[resp'.uid].role = "admin" \/ posts[resp'.pid].author_id = resp'.uid
            THEN /\ resp'.exc = "none"
                 /\ posts' = Drop(posts, {resp'.pid})
            ELSE /\ resp'.exc = "AuthorizationError"
                 /\ posts' = posts]_vars

\* the admin has deleted a post
C2_Witness ==
    /\ resp.op = "delete_post"
    /\ resp.status = 200
    /\ users[resp.uid].role = "admin"
    /\ resp.pid \notin DOMAIN posts

\* C17: a successful delete_post hands back the post as it was before the
\* removal, its title being quoted in the response message, removes that
\* post and no other post or user, and in the state it leaves
\* get_post_by_id, update_post and delete_post for that id fail with
\* PostNotFoundError.
C17_DeleteReturnsAndRemovesPost ==
    [][\A id \in 1..MaxPosts :
         (resp'.op = "delete_post" /\ resp'.status = 200 /\ resp'.pid = id)
         => /\ id \in DOMAIN posts
            /\ resp'.error = <<"Post", posts[id].title, "deleted successfully">>
            /\ DOMAIN posts' = DOMAIN posts \ {id}
            /\ \A p \in DOMAIN posts \ {id} : posts'[p] = posts[p]
            /\ users' = users
            /\ get_post_by_id(id)' = "PostNotFoundError"
            /\ \A u \in DOMAIN users :
                  /\ update_post(id, u, Title2, None)'.exc = "PostNotFoundError"
                  /\ delete_post(id, u, users[u].role)'.exc = "PostNotFoundError"]_vars

\* the admin has deleted one of two posts, a post of another user whose
\* title had been changed, and the other post is still there
C17_Witness ==
    /\ resp.op = "delete_post"
    /\ resp.status = 200
    /\ resp.tok.sub = 1
    /\ resp.error[2] = Title2
    /\ resp.pid \notin DOMAIN posts
    /\ Cardinality(DOMAIN posts) = 1

---------------------------------------------------------------------------
(* SpecGuard: the routes behind a token, called with every kind of header,
   over a store holding the admin, one user who has logged in at time 0
   and one post of that user *)

InitGuard ==
    /\ now = 0
    /\ users = (1 :> Admin @@ 2 :> AmyUser)
    /\ posts = (1 :> Post(Title1, Content1, 2))
    /\ issued = {Token("access", 2, 0, "server"), Token("refresh", 2, 0, "server")}
    /\ ticks = 0
    /\ resp = NoResponse("init")
    /\ reg = [w \in Workers |-> NoReg]

NextGuard ==
    \/ \E tok \in Presentable : GetProfile(tok)
    \/ \E tok \in Presentable : UpdateProfile(tok, TRUE, BobMail, None, 1)
    \/ \E tok \in Presentable, j \in BOOLEAN : CreatePost(tok, j, Title1, Content1)
    \/ \E tok \in Presentable, id \in 1..MaxPosts : UpdatePost(tok, id, TRUE, Title1, None)
    \/ \E tok \in Presentable, id \in 1..MaxPosts : DeletePost(tok, id)
    \/ \E tok \in Presentable : Refresh(tok)
    \/ \E tok \in issued : DeactivateUser(tok.sub)
    \/ Tick(AccessTTL)

SpecGuard == InitGuard /\ [][NextGuard]_vars

\* the routes wrapped by the middleware's jwt_required
ProtectedOps == {"get_profile", "update_profile", "create_post", "update_post", "delete_post"}

ServerSigned(tok) == tok.form = "jwt" /\ tok.sig = "server"

Accepted(r) == r.status \in {200, 201}

\* C3: from the moment a user is inactive, every protected request made with
\* a token of that user is rejected and changes nothing in the store, and the
\* user stays inactive, so no later request is accepted either.
C3_DeactivatedUserIsRejected ==
    [][/\ (/\ resp'.op \in ProtectedOps
           /\ ServerSigned(resp'.tok)
           /\ resp'.tok.sub \in DOMAIN users
           /\ ~users[resp'.tok.sub].is_active)
          => (~Accepted(resp') /\ users' = users /\ posts' = posts)
       /\ \A u \in DOMAIN users :
            ~users[u].is_active => (u \in DOMAIN users' /\ ~users'[u].is_active)]_vars

\* a deactivated user presented an unexpired access token and got 401
C3_Witness ==
    /\ resp.op \in ProtectedOps
    /\ verify_jwt_in_request(resp.tok, FALSE) = "ok"
    /\ resp.tok.sub \in DOMAIN users
    /\ ~users[resp.tok.sub].is_active
    /\ resp.status = 401

\* no header, not a JWT, signed with another key, or past its expiry
BadToken(tok) ==
    \/ tok.form \in {"none", "malformed"}
    \/ tok.form = "jwt" /\ tok.sig # "server"
    \/ tok.form = "jwt" /\ TokenExp(tok) <= now

\* C4: a request to a route behind jwt_required with no Authorization header
\* or a malformed, wrongly signed or expired token ends with status 401.
C4_BadTokenGets401 ==
    (resp.op \in ProtectedOps /\ BadToken(resp.tok)) => resp.status = 401

\* C5: a refresh token presented to a route that requires an access token is
\* rejected and changes nothing; an access token presented to POST
\* /auth/refresh is answered 401 and no access token is issued.
C5_TokenKindIsEnforced ==
    [][/\ (/\ resp'.op \in ProtectedOps
           /\ ServerSigned(resp'.tok)
           /\ resp'.tok.kind = "refresh")
          => (~Accepted(resp') /\ users' = users /\ posts' = posts)
       /\ (/\ resp'.op = "refresh"
           /\ ServerSigned(resp'.tok)
           /\ resp'.tok.kind = "access")
          => (resp'.status = 401 /\ resp'.out = {} /\ issued' = issued)]_vars

\* an unexpired access token of an active user was refused by /auth/refresh
C5_Witness ==
    /\ resp.op = "refresh"
    /\ verify_jwt_in_request(resp.tok, FALSE) = "ok"
    /\ resp.tok.sub \in DOMAIN users
    /\ users[resp.tok.sub].is_active
    /\ resp.status = 401

---------------------------------------------------------------------------
(* SpecAuth: registration, login, refresh and the clock, over a store that
   holds one registered user *)

InitAuth ==
    /\ users = (1 :> AmyUser)
    /\ posts = << >>
    /\ issued = {}
    /\ now = 0
    /\ ticks = 0
    /\ resp = NoResponse("init")
    /\ reg = [w \in Workers |-> NoReg]

\* the instants around the two lifetimes
ClockSteps == {AccessTTL - 1, AccessTTL, AccessTTL + 1, RefreshTTL - 1, RefreshTTL, RefreshTTL + 1}

NextAuth ==
    \/ \E j \in BOOLEAN, p \in {Pw2, WeakPw} : Register(j, Bob, BobMail, p, 1)
    \/ \E u \in {Amy, AmyMailCaps, Bob}, p \in {Pw1, Pw2} : Login(TRUE, u, p)
    \/ \E tok \in Presentable : Refresh(tok)
    \/ \E tok \in Presentable : GetProfile(tok)
    \/ \E u \in DOMAIN users : DeactivateUser(u)
    \/ \E u \in DOMAIN users : DeleteUser(u)
    \/ \E d \in ClockSteps : Tick(d)

SpecAuth == InitAuth /\ [][NextAuth]_vars

\* C11: a successful POST /auth/register stores one new user with role
\* 'user', is_active true and a password_hash that is not the submitted
\* password and verifies against it, and answers with an access token and a
\* refresh token whose subject is the new user's id.
C11_RegisterStoresHashedUser ==
    [][(resp'.op = "register" /\ resp'.status = 201)
       => LET id == resp'.uid
              password == resp'.args[3]
          IN  /\ id \notin DOMAIN users
              /\ DOMAIN users' = DOMAIN users \cup {id}
              /\ \A u \in DOMAIN users : users'[u] = users[u]
              /\ users'[id].role = "user"
              /\ users'[id].is_active
              /\ users'[id].password_hash # password
              /\ verify_password(password, users'[id].password_hash)
              /\ resp'.out = {Token("access", id, now, "server"),
                              Token("refresh", id, now, "server")}]_vars

\* bob has registered with a valid body and has got his two tokens
C11_Witness ==
    /\ resp.op = "register"
    /\ resp.status = 201
    /\ resp.uid \in DOMAIN users
    /\ users[resp.uid].username = Lower(Bob)
    /\ users[resp.uid].role = "user"
    /\ verify_password(Pw2, users[resp.uid].password_hash)
    /\ \E t \in resp.out : t.kind = "refresh" /\ t.sub = resp.uid

\* C6 as amended: a token the server issued at time t verifies, as a token of
\* its kind and with its subject as identity, at every time before
\* t + lifetime, and is expired from t + lifetime on; the lifetime is 900 s
\* for an access token and 604800 s for a refresh token. A request of an
\* active user to GET /users/me with an access token, or to POST
\* /auth/refresh with a refresh token, succeeds for that user exactly when it
\* is made before t + lifetime.
C6_TokenLifetime ==
    /\ \A tok \in issued :
         LET life == IF tok.kind = "access" THEN 900 ELSE 604800
             v == verify_jwt_in_request(tok, tok.kind = "refresh")
         IN  /\ now < tok.iat + life => (v = "ok" /\ get_jwt_identity(tok) = tok.sub)
             /\ now >= tok.iat + life => v = "ExpiredSignatureError"
    /\ (/\ resp.op \in {"get_profile", "refresh"}
        /\ resp.tok \in issued
        /\ resp.tok.kind = (IF resp.op = "refresh" THEN "refresh" ELSE "access")
        /\ resp.tok.sub \in DOMAIN users
        /\ users[resp.tok.sub].is_active)
       => LET life == IF resp.tok.kind = "access" THEN 900 ELSE 604800
          IN  (resp.status = 200 /\ resp.uid = resp.tok.sub) <=> (now < resp.tok.iat + life)

\* a refresh token was accepted one second before its lifetime elapsed
C6_Witness ==
    /\ resp.op = "refresh"
    /\ resp.tok \in issued
    /\ resp.tok.kind = "refresh"
    /\ now = resp.tok.iat + RefreshTTL - 1
    /\ resp.status = 200
    /\ resp.uid = resp.tok.sub

\* C6 as stated: a token issued at time t still verifies at every time
\* now <= t + lifetime.
C6_ValidThroughLifetime ==
    \A tok \in issued :
      now <= tok.iat + TokenTTL(tok.kind)
        => verify_jwt_in_request(tok, tok.kind = "refresh") = "ok"

\* C7: POST /auth/refresh with an unexpired refresh token answers 200 with one
\* new access token for the token's subject when that subject is an existing
\* active user, and answers 401 without issuing a token otherwise.
C7_RefreshIffActiveUser ==
    [][(resp'.op = "refresh" /\ verify_jwt_in_request(resp'.tok, TRUE) = "ok")
       => IF resp'.tok.sub \in DOMAIN users /\ users[resp'.tok.sub].is_active
            THEN /\ resp'.status = 200
                 /\ resp'.out = {Token("access", resp'.tok.sub, now, "server")}
                 /\ issued' = issued \cup resp'.out
            ELSE /\ resp'.status = 401
                 /\ resp'.out = {}
                 /\ issued' = issued]_vars

\* an unexpired refresh token of a deactivated user was refused
C7_Witness ==
    /\ resp.op = "refresh"
    /\ verify_jwt_in_request(resp.tok, TRUE) = "ok"
    /\ resp.tok.sub \in DOMAIN users
    /\ ~users[resp.tok.sub].is_active
    /\ resp.status = 401
    /\ resp.out = {}

---------------------------------------------------------------------------
(* SpecUsers: AuthService.register_user and UserService.update_user called
   one after the other on an empty store *)

\* a call of AuthService.register_user
RegisterUser(username, email, password, role, salt) ==
    LET r == register_user(username, email, password, role, salt)
    IN  /\ DOMAIN r.users \subseteq 1..MaxUsers
        /\ users' = r.users
        /\ resp' = [NoResponse("register_user") EXCEPT !.exc = r.exc, !.error = r.field,
                                                     !.uid = r.id, !.args = <<username, email>>]
        /\ UNCHANGED <<posts, issued, now, ticks, reg>>

\* a call of UserService.update_user
UpdateUser(user_id, email, password, salt) ==
    LET r == update_user(user_id, email, password, salt)
    IN  /\ users' = r.users
        /\ resp' = [NoResponse("update_user") EXCEPT !.exc = r.exc, !.error = r.field,
                                                   !.uid = user_id, !.args = <<email>>]
        /\ UNCHANGED <<posts, issued, now, ticks, reg>>

InitUsers ==
    /\ users = << >>
    /\ posts = << >>
    /\ issued = {}
    /\ now = 0
    /\ ticks = 0
    /\ resp = NoResponse("init")
    /\ reg = [w \in Workers |-> NoReg]

NextUsers ==
    \/ \E u \in {Amy, AmyCaps, Bob}, e \in {AmyMail, AmyMailCaps, BobMail, NoAtMail} :
          RegisterUser(u, e, Pw1, "user", 1)
    \/ \E id \in 1..MaxUsers, e \in {None, AmyMailCaps, BobMail, BobMailCaps}, p \in {None, Pw2} :
          UpdateUser(id, e, p, 1)

SpecUsers == InitUsers /\ [][NextUsers]_vars

IsLower(s) == \A i \in 1..Len(s) : s[i] \notin UpperChars

\* C8: no two distinct users have the same username or the same email,
\* comparing without regard to case.
C8_UniqueIgnoringCase ==
    \A a, b \in DOMAIN users :
      a # b => /\ Lower(users[a].username) # Lower(users[b].username)
               /\ Lower(users[a].email) # Lower(users[b].email)

\* with two users stored, update_user refused an email another user holds
\* in a different casing
C8_Witness ==
    /\ Cardinality(DOMAIN users) >= 2
    /\ resp.op = "update_user"
    /\ resp.exc = "DuplicateUserError"
    /\ \E u \in DOMAIN users \ {resp.uid} :
         /\ users[u].email # resp.args[1]
         /\ users[u].email = Lower(resp.args[1])

\* C9: register_user stores the username and the email in lowercase whatever
\* the casing typed, and a call whose username or email equals, without
\* regard to case, that of a stored user fails with DuplicateUserError and
\* adds no user.
C9_RegisterLowercases ==
    [][resp'.op = "register_user"
       => LET username == resp'.args[1]
              email == resp'.args[2]
              taken == \E u \in DOMAIN users :
                         \/ Lower(users[u].username) = Lower(username)
                         \/ Lower(users[u].email) = Lower(email)
          IN  /\ taken => (resp'.exc = "DuplicateUserError" /\ users' = users)
              /\ resp'.exc = "none"
                   => /\ ~taken
                      /\ DOMAIN users' = DOMAIN users \cup {resp'.uid}
                      /\ resp'.uid \notin DOMAIN users
                      /\ users'[resp'.uid].username = Lower(username)
                      /\ users'[resp'.uid].email = Lower(email)
                      /\ IsLower(users'[resp'.uid].username)
                      /\ IsLower(users'[resp'.uid].email)]_vars

\* a second user was registered from a username and an email typed with
\* capitals, and is stored in lowercase
C9_Witness ==
    /\ resp.op = "register_user"
    /\ resp.exc = "none"
    /\ Cardinality(DOMAIN users) >= 2
    /\ ~IsLower(resp.args[1])
    /\ ~IsLower(resp.args[2])
    /\ users[resp.uid].username = Lower(resp.args[1])
    /\ users[resp.uid].email = Lower(resp.args[2])

---------------------------------------------------------------------------
(* SpecRace: two workers run register_user concurrently; the store
   serializes the commits, the pre-flight reads are separate steps *)

\* the pre-flight reads of worker w
RegPreflight(w, username, email) ==
    /\ reg[w].pc = "idle"
    /\ LET taken == register_preflight(username, email, users)
       IN  reg' = [reg EXCEPT ![w] =
                     IF taken # "none"
                       THEN [pc |-> "done", username |-> username, email |-> email,
                             passed |-> FALSE, exc |-> "DuplicateUserError", field |-> taken]
                       ELSE [pc |-> "checked", username |-> username, email |-> email,
                             passed |-> TRUE, exc |-> "none", field |-> "none"]]
    /\ resp' = [NoResponse("register_preflight") EXCEPT !.uid = w]
    /\ UNCHANGED <<users, posts, issued, now, ticks>>

\* the insert and commit of worker w, and the handling of its failure
RegCommit(w) ==
    /\ reg[w].pc = "checked"
    /\ LET row == User(Lower(reg[w].username), Lower(reg[w].email),
                       hash_password(Pw1, w), "user", TRUE)
           r == register_commit(row, users)
       IN  /\ users' = r.users
           /\ reg' = [reg EXCEPT ![w].pc = "done", ![w].exc = r.exc, ![w].field = r.field]
    /\ resp' = [NoResponse("register_commit") EXCEPT !.uid = w]
    /\ UNCHANGED <<posts, issued, now, ticks>>

NextRace ==
    \/ \E w \in Workers, u \in {Amy, AmyCaps, Bob}, e \in {AmyMail, AmyMailCaps, BobMail} :
          RegPreflight(w, u, e)
    \/ \E w \in Workers : RegCommit(w)

SpecRace == InitUsers /\ [][NextRace]_vars

SameUsername == Lower(reg[1].username) = Lower(reg[2].username)

SameEmail == Lower(reg[1].email) = Lower(reg[2].email)

\* C10: of two concurrent register_user calls that share a username or an
\* email and both pass the pre-flight reads, one commits and the other fails
\* with DuplicateUserError whose field is the column that conflicted, and one
\* user holds the shared value.
C10_RaceNamesConflictingColumn ==
    (/\ \A w \in Workers : reg[w].pc = "done" /\ reg[w].passed
     /\ SameUsername \/ SameEmail)
    => \E winner, loser \in Workers :
         /\ winner # loser
         /\ reg[winner].exc = "none"
         /\ reg[loser].exc = "DuplicateUserError"
         /\ \/ reg[loser].field = "username" /\ SameUsername
            \/ reg[loser].field = "email" /\ SameEmail
         /\ Cardinality({u \in DOMAIN users :
                           \/ SameUsername /\ users[u].username = Lower(reg[loser].username)
                           \/ SameEmail /\ users[u].email = Lower(reg[loser].email)}) = 1

---------------------------------------------------------------------------
(* SpecLogin: AuthService.authenticate_user called on a store whose users
   register through POST /auth/register, change their password and are
   deactivated *)

\* a call of AuthService.authenticate_user
AuthenticateUser(username, password) ==
    LET r == authenticate_user(username, password)
    IN  /\ resp' = [NoResponse("authenticate_user") EXCEPT !.exc = r.exc, !.error = r.error,
                                                         !.uid = r.id,
                                                         !.args = <<username, password>>]
        /\ UNCHANGED <<users, posts, issued, now, ticks, reg>>

InitLogin == InitAuth

NextLogin ==
    \/ Register(TRUE, Bob, BobMail, Pw2, 1)
    \/ \E u \in {Amy, AmyCaps, AmyMail, AmyMailCaps, Bob, BobMailCaps, Adm}, p \in {Pw1, Pw2} :
          AuthenticateUser(u, p)
    \/ \E u \in DOMAIN users : UpdateUser(u, None, Pw2, 2)
    \/ \E u \in DOMAIN users : DeactivateUser(u)

SpecLogin == InitLogin /\ [][NextLogin]_vars

\* the users the identifier names, as a username or as an email
Named(identifier) ==
    {u \in DOMAIN users : \/ users[u].username = Lower(identifier)
                           \/ users[u].email = Lower(identifier)}

---------------------------------------------------------------------------
(* SpecPages: PostService.get_all_posts called on a store that posts are
   added to and removed from *)

\* a call of PostService.create_post
CreatePostCall(title, content, author_id) ==
    LET r == create_post(title, content, author_id)
    IN  /\ DOMAIN r.posts \subseteq 1..MaxPosts
        /\ posts' = r.posts
        /\ resp' = [NoResponse("create_post_call") EXCEPT !.exc = r.exc, !.uid = author_id,
                                                        !.pid = r.id,
                                                        !.args = <<title, content>>]
        /\ UNCHANGED <<users, issued, now, ticks, reg>>

\* a call of PostService.delete_post; args holds the post returned
DeletePostCall(post_id, user_id, user_role) ==
    LET r == delete_post(post_id, user_id, user_role)
    IN  /\ posts' = r.posts
        /\ resp' = [NoResponse("delete_post_call") EXCEPT
                       !.exc = r.exc, !.uid = user_id, !.pid = post_id,
                       !.args = IF r.exc = "none" THEN <<r.post>> ELSE << >>]
        /\ UNCHANGED <<users, issued, now, ticks, reg>>

\* a call of PostService.get_all_posts; args holds the arguments and the
\* dictionary returned
GetAllPosts(page, per_page, order) ==
    /\ resp' = [NoResponse("get_all_posts") EXCEPT
                  !.args = <<page, per_page, get_all_posts(page, per_page, order)>>]
    /\ UNCHANGED <<users, posts, issued, now, ticks, reg>>

InitPages ==
    /\ now = 0
    /\ users = (1 :> AmyUser)
    /\ posts = << >>
    /\ issued = {}
    /\ ticks = 0
    /\ resp = NoResponse("init")
    /\ reg = [w \in Workers |-> NoReg]

\* the values of page
PageInputs == {PyNone, PyInt(-1), PyInt(0), PyInt(1), PyInt(2), PyInt(3),
               PyStr(<<"2">>), PyStr(<<"x">>)}

\* the values of per_page
PerPageInputs == {PyNone, PyInt(0), PyInt(1), PyInt(2), PyInt(PerPageMax),
                  PyInt(PerPageMax + 1), PyStr(<<"1", "0">>), PyStr(<<"x">>)}

NextPages ==
    \/ CreatePostCall(Title1, Content1, 1)
    \/ \E id \in 1..MaxPosts : DeletePostCall(id, 1, "user")
    \/ \E page \in PageInputs, per_page \in PerPageInputs, order \in NewestFirst :
          GetAllPosts(page, per_page, order)
    \/ Tick(1)

SpecPages == InitPages /\ [][NextPages]_vars

\* int() rejects the value
NotNumber(v) == v.type = "NoneType" \/ py_int(v).exc # "none"

\* page, once defaulted, is not a number or is below 1
BadPage(page) ==
    LET v == IF page = PyNone THEN PyInt(DefaultPage) ELSE page
    IN  NotNumber(v) \/ py_int(v).value < 1

\* per_page, once defaulted, is not a number or is outside 1..100
BadPerPage(per_page) ==
    LET v == IF per_page = PyNone THEN PyInt(DefaultPerPage) ELSE per_page
    IN  NotNumber(v) \/ py_int(v).value < 1 \/ py_int(v).value > PerPageMax

\* C13 as amended: get_all_posts fails with ValidationError of field 'page'
\* when page is below 1 or not a number, with field 'per_page' when page
\* is valid and per_page is below 1, above 100 or not a number, in both
\* cases without a query to the store, and succeeds otherwise, a missing
\* page being 1 and a missing per_page 10.
C13_PaginationIsValidated ==
    resp.op = "get_all_posts"
    => LET page == resp.args[1]
           per_page == resp.args[2]
           result == resp.args[3]
       IN  /\ BadPage(page)
                => /\ result.exc = "ValidationError"
                   /\ result.field = "page"
                   /\ ~result.queried
           /\ (~BadPage(page) /\ BadPerPage(per_page))
                => /\ result.exc = "ValidationError"
                   /\ result.field = "per_page"
                   /\ ~result.queried
           /\ (~BadPage(page) /\ ~BadPerPage(per_page))
                => /\ result.exc = "none"
                   /\ result.queried
                   /\ page = PyNone => result.page = DefaultPage
                   /\ per_page = PyNone => result.per_page = DefaultPerPage

\* a call with a valid page and per_page = 101 was refused on per_page, with
\* posts in the store
C13_Witness ==
    /\ resp.op = "get_all_posts"
    /\ DOMAIN posts # {}
    /\ resp.args[1] = PyNone
    /\ resp.args[2] = PyInt(PerPageMax + 1)
    /\ resp.args[3].exc = "ValidationError"
    /\ resp.args[3].field = "per_page"
    /\ ~resp.args[3].queried

\* C13 as stated: the error carries field 'page' whenever page is invalid
\* and field 'per_page' whenever per_page is invalid.
C13_EachFieldReported ==
    resp.op = "get_all_posts"
    => LET result == resp.args[3]
       IN  /\ BadPage(resp.args[1])
                => (result.exc = "ValidationError" /\ result.field = "page")
           /\ BadPerPage(resp.args[2])
                => (result.exc = "ValidationError" /\ result.field = "per_page")

\* C14: for a store of N posts and valid page and per_page, get_all_posts
\* returns total = N, pages = ceil(N / per_page), the page and per_page asked
\* for, and min(per_page, max(0, N - (page-1)*per_page)) items, which are
\* distinct stored posts.
C14_PageArithmetic ==
    (resp.op = "get_all_posts" /\ resp.args[3].exc = "none")
    => LET result == resp.args[3]
           N == Cardinality(DOMAIN posts)
           page == IF resp.args[1] = PyNone THEN DefaultPage ELSE py_int(resp.args[1]).value
           per_page == IF resp.args[2] = PyNone THEN DefaultPerPage
                       ELSE py_int(resp.args[2]).value
           rest == IF N - (page - 1) * per_page > 0 THEN N - (page - 1) * per_page ELSE 0
       IN  /\ result.total = N
           /\ result.pages * per_page >= N
           /\ (result.pages - 1) * per_page < N \/ (N = 0 /\ result.pages = 0)
           /\ result.page = page
           /\ result.per_page = per_page
           /\ Len(result.items) = IF per_page < rest THEN per_page ELSE rest
           /\ \A i \in DOMAIN result.items : result.items[i] \in DOMAIN posts
           /\ \A i, j \in DOMAIN result.items : i # j => result.items[i] # result.items[j]

\* the second page of one post each, over a store of two posts, and a page
\* size that does not divide the number of posts
C14_Witness ==
    /\ resp.op = "get_all_posts"
    /\ Cardinality(DOMAIN posts) = 2
    /\ resp.args[3].exc = "none"
    /\ \/ /\ resp.args[3].page = 2
          /\ resp.args[3].per_page = 1
          /\ Len(resp.args[3].items) = 1
          /\ resp.args[3].pages = 2
       \/ /\ resp.args[3].per_page = DefaultPerPage
          /\ resp.args[3].pages = 1
          /\ Len(resp.args[3].items) = 2

---------------------------------------------------------------------------
(* SpecFields: POST /posts and PUT /posts/{id} called by one user with
   titles and contents at the limits of the schemas *)

InitFields ==
    /\ now = 0
    /\ users = (1 :> AmyUser)
    /\ posts = << >>
    /\ issued = {Token("access", 1, 0, "server")}
    /\ ticks = 0
    /\ resp = NoResponse("init")
    /\ reg = [w \in Workers |-> NoReg]

NextFields ==
    \/ \E tok \in issued, t \in {<< >>, Title1, BlankTitle, LongestTitle, TooLongTitle},
          c \in {Content1, ShortContent} :
          CreatePost(tok, TRUE, t, c)
    \/ \E tok \in issued, id \in 1..MaxPosts,
          t \in {None, << >>, Title2, BlankTitle, TooLongTitle},
          c \in {None, Content2, ShortContent} :
          UpdatePost(tok, id, TRUE, t, c)

SpecFields == InitFields /\ [][NextFields]_vars

Whitespace == {" "}

\* str.strip()
RECURSIVE Strip(_)
Strip(s) ==
    IF Len(s) = 0 THEN s
    ELSE IF s[1] \in Whitespace THEN Strip(Tail(s))
    ELSE IF s[Len(s)] \in Whitespace THEN Strip(SubSeq(s, 1, Len(s) - 1))
    ELSE s

\* C15: every stored post has a title of 1 to 200 characters that is not
\* empty once its whitespace is trimmed, and a content of at least 10
\* characters.
C15_StoredPostsAreValid ==
    \A p \in DOMAIN posts :
      /\ Len(posts[p].title) >= TitleMinLen
      /\ Len(posts[p].title) <= TitleMaxLen
      /\ Strip(posts[p].title) # << >>
      /\ Len(posts[p].content) >= ContentMinLen

---------------------------------------------------------------------------
(* SpecBody: the post routes called with bodies that name a user id of
   the client's choosing *)

CreatePostBody(tok, body) ==
    HandleBody("create_post", tok, create_post_request(tok, body), <<body>>)

UpdatePostBody(tok, post_id, body) ==
    HandleBody("update_post", tok, update_post_request(tok, post_id, body), <<body>>)

NextBody ==
    \/ \E tok \in Presentable, a \in DOMAIN users :
          CreatePostBody(tok, [title |-> Title1, content |-> Content1, author_id |-> a])
    \/ \E tok \in Presentable, id \in 1..MaxPosts, a \in DOMAIN users :
          UpdatePostBody(tok, id, [title |-> Title2, content |-> None, author_id |-> a])
    \/ \E tok \in Presentable, id \in 1..MaxPosts : DeletePost(tok, id)

SpecBody == Init /\ [][NextBody]_vars

\* C18: a post created through POST /posts has the user of the access
\* token as author whatever the body names, and PUT and DELETE /posts/{id}
\* hand the user of the token to the service and decide on the ownership
\* of that user.
C18_ActorComesFromToken ==
    [][/\ (resp'.op = "create_post" /\ resp'.status = 201)
          => /\ resp'.pid \notin DOMAIN posts
             /\ posts'[resp'.pid].author_id = resp'.tok.sub
             /\ resp'.tok \in issued
       /\ (resp'.op \in {"create_post", "update_post", "delete_post"} /\ resp'.uid # 0)
          => /\ resp'.uid = resp'.tok.sub
             /\ resp'.tok \in issued
       /\ (resp'.op = "update_post" /\ resp'.status = 200)
          => posts[resp'.pid].author_id = resp'.tok.sub
       /\ (resp'.op = "update_post" /\ resp'.status = 403)
          => posts[resp'.pid].author_id # resp'.tok.sub
       /\ (resp'.op = "delete_post" /\ resp'.status = 200)
          => \/ posts[resp'.pid].author_id = resp'.tok.sub
             \/ users[resp'.tok.sub].role = "admin"
       /\ (resp'.op = "delete_post" /\ resp'.status = 403)
          => /\ posts[resp'.pid].author_id # resp'.tok.sub
             /\ users[resp'.tok.sub].role # "admin"]_vars

\* bob has created a post with a body naming amy as author and the post is
\* his, or has been refused the update of amy's post with a body naming amy
C18_Witness ==
    /\ resp.tok.sub = 3
    /\ resp.args[1].author_id = 2
    /\ \/ /\ resp.op = "create_post"
          /\ resp.status = 201
          /\ posts[resp.pid].author_id = 3
       \/ /\ resp.op = "update_post"
          /\ resp.status = 403
          /\ posts[resp.pid].author_id = 2

---------------------------------------------------------------------------
(* SpecAdmin: a route wrapped by admin_required, called with every kind of
   header while users are deactivated and deleted and tokens expire *)

AdminRoute(tok) == Handle("admin_route", tok, admin_route_request(tok))

InitAdmin ==
    /\ now = 0
    /\ users = (1 :> Admin @@ 2 :> AmyUser)
    /\ posts = << >>
    /\ issued = {Token("access", 1, 0, "server"), Token("refresh", 1, 0, "server"),
                 Token("access", 2, 0, "server")}
    /\ ticks = 0
    /\ resp = NoResponse("init")
    /\ reg = [w \in Workers |-> NoReg]

NextAdmin ==
    \/ \E tok \in Presentable : AdminRoute(tok)
    \/ \E tok \in Presentable : GetProfile(tok)
    \/ \E u \in DOMAIN users : DeactivateUser(u)
    \/ \E u \in DOMAIN users : DeleteUser(u)
    \/ Tick(AccessTTL)

SpecAdmin == InitAdmin /\ [][NextAdmin]_vars

\* the request carries an unexpired access token of the server for a user
\* who exists and is active
Authenticated(tok) ==
    /\ ServerSigned(tok)
    /\ tok.kind = "access"
    /\ now < TokenExp(tok)
    /\ tok.sub \in DOMAIN users
    /\ users[tok.sub].is_active

---------------------------------------------------------------------------
(* SpecHash: hash_password and verify_password called on passwords up to
   and beyond the length bcrypt reads. resp.args lists the calls of
   hash_password made so far with what they returned, resp.out the
   password of the last call and whether it returned true. *)

HashInputs == {Pw1, Pw2, LongPw, LongPwA, LongPwB}

\* a call of hash_password; gensalt draws a salt no earlier call has drawn
HashPassword(password, strict) ==
    /\ Len(resp.args) < MaxHashes
    /\ resp' = [NoResponse("hash_password") EXCEPT
                  !.exc = IF TooLong(password, strict) THEN "ValueError" ELSE "none",
                  !.out = [password |-> password, result |-> ~TooLong(password, strict)],
                  !.args = IF TooLong(password, strict) THEN resp.args
                           ELSE Append(resp.args,
                                       [password |-> password,
                                        hash |-> hash_password(password, Len(resp.args) + 1)])]
    /\ UNCHANGED <<users, posts, issued, now, ticks, reg>>

\* a call of verify_password on the hash returned by the i-th call
VerifyPassword(password, i, strict) ==
    /\ i \in DOMAIN resp.args
    /\ resp' = [NoResponse("verify_password") EXCEPT
                  !.exc = IF TooLong(password, strict) THEN "ValueError" ELSE "none",
                  !.args = resp.args,
                  !.pid = i,
                  !.out = [password |-> password,
                           result |-> /\ ~TooLong(password, strict)
                                      /\ verify_password(password, resp.args[i].hash)]]
    /\ UNCHANGED <<users, posts, issued, now, ticks, reg>>

NextHash ==
    \/ \E p \in HashInputs, strict \in BOOLEAN : HashPassword(p, strict)
    \/ \E q \in HashInputs, i \in 1..MaxHashes, strict \in BOOLEAN : VerifyPassword(q, i, strict)

SpecHash == InitUsers /\ [][NextHash]_vars

\* the password is one bcrypt reads whole
Short(password) == Len(password) <= BcryptMaxBytes

\* C20 as amended: for passwords p and q of at most 72 bytes,
\* hash_password(p) returns a hash, verify_password(p, hash_password(p)) is
\* true, verify_password(q, hash_password(p)) is false for q different from
\* p, and two calls hash_password(p) return different hashes that both
\* verify against p.
C20_HashVerifyShort ==
    /\ (resp.op = "hash_password" /\ Short(resp.out.password))
         => /\ resp.exc = "none"
            /\ resp.args[Len(resp.args)].password = resp.out.password
    /\ \A i \in DOMAIN resp.args :
         Short(resp.args[i].password)
         => /\ verify_password(resp.args[i].password, resp.args[i].hash)
            /\ \A q \in HashInputs :
                  (Short(q) /\ q # resp.args[i].password)
                  => ~verify_password(q, resp.args[i].hash)
            /\ \A j \in DOMAIN resp.args :
                  (j # i /\ resp.args[j].password = resp.args[i].password)
                  => resp.args[j].hash # resp.args[i].hash
    /\ (resp.op = "verify_password" /\ Short(resp.out.password)
           /\ Short(resp.args[resp.pid].password))
         => /\ resp.exc = "none"
            /\ resp.out.result <=> resp.out.password = resp.args[resp.pid].password

\* the password of 72 characters was hashed twice, the two hashes differ,
\* and verify_password has refused another password on the second
C20_Witness ==
    /\ resp.op = "verify_password"
    /\ Len(resp.args) = 2
    /\ resp.args[1].password = LongPw
    /\ resp.args[2].password = LongPw
    /\ resp.args[1].hash # resp.args[2].hash
    /\ verify_password(LongPw, resp.args[1].hash)
    /\ resp.pid = 2
    /\ resp.out.password = Pw1
    /\ ~resp.out.result

\* C20 as stated: for every password p a call of verify_password(q, h) on a
\* hash h of p returns true if q is p and false if q is different from p.
C20_HashVerifyAll ==
    resp.op = "verify_password"
    => /\ resp.exc = "none"
       /\ resp.out.result <=> resp.out.password = resp.args[resp.pid].password

---------------------------------------------------------------------------
(* SpecEdit: two users create posts and update them with bodies that give
   the title, the content, both or neither; amy created the first post
   one second before *)

InitEdit ==
    /\ now = 1
    /\ users = (1 :> AmyUser @@ 2 :> BobUser)
    /\ posts = (1 :> [Post(Title1, Content1, 1) EXCEPT !.created_at = 0, !.updated_at = 0])
    /\ issued = {Token("access", 1, 0, "server"), Token("access", 2, 0, "server")}
    /\ ticks = 0
    /\ resp = NoResponse("init")
    /\ reg = [w \in Workers |-> NoReg]

NextEdit ==
    \/ \E tok \in issued :
          CreatePostBody(tok, [title |-> Title1, content |-> Content1, author_id |-> tok.sub])
    \/ \E tok \in issued, id \in 1..MaxPosts, t \in {None, Title2}, c \in {None, Content2} :
          UpdatePostBody(tok, id, [title |-> t, content |-> c, author_id |-> tok.sub])

SpecEdit == InitEdit /\ [][NextEdit]_vars

\* C16: a successful update_post sets the title and the content that were
\* provided and keeps the one passed as None, and leaves the post's id,
\* author_id and created_at, every other post and every user unchanged.
C16_UpdateChangesOnlyGivenFields ==
    [][(resp'.op = "update_post" /\ resp'.status = 200)
       => LET id == resp'.pid
              title == resp'.args[1].title
              content == resp'.args[1].content
          IN  /\ id \in DOMAIN posts
              /\ DOMAIN posts' = DOMAIN posts
              /\ posts'[id].title = IF title = None THEN posts[id].title ELSE title
              /\ posts'[id].content = IF content = None THEN posts[id].content ELSE content
              /\ posts'[id].author_id = posts[id].author_id
              /\ posts'[id].created_at = posts[id].created_at
              /\ \A p \in DOMAIN posts \ {id} : posts'[p] = posts[p]
              /\ users' = users]_vars

\* with two posts stored, an update that gave the title alone has left the
\* content of the post as it was
C16_Witness ==
    /\ resp.op = "update_post"
    /\ resp.status = 200
    /\ Cardinality(DOMAIN posts) = 2
    /\ resp.args[1].title = Title2
    /\ resp.args[1].content = None
    /\ posts[resp.pid].title = Title2
    /\ posts[resp.pid].content = Content1

---------------------------------------------------------------------------
(* SpecPassword: AuthService.change_password and authenticate_user called
   on amy's row with passwords up to and beyond the length bcrypt reads *)

PasswordInputs == {Pw1, Pw2, LongPwA, LongPwB}

\* a call of AuthService.change_password with the row of user_id
ChangePassword(user_id, old_password, new_password, salt, strict) ==
    LET r == change_password(user_id, old_password, new_password, salt, strict)
    IN  /\ users' = r.users
        /\ resp' = [NoResponse("change_password") EXCEPT
                      !.exc = r.exc, !.error = r.error, !.uid = user_id,
                      !.args = <<old_password, new_password>>]
        /\ UNCHANGED <<posts, issued, now, ticks, reg>>

NextPassword ==
    \/ \E u \in DOMAIN users, old \in PasswordInputs, new \in PasswordInputs,
          salt \in {2, 3}, strict \in BOOLEAN :
          ChangePassword(u, old, new, salt, strict)
    \/ \E p \in PasswordInputs : AuthenticateUser(Amy, p)
    \/ \E u \in DOMAIN users : DeactivateUser(u)

SpecPassword == InitAuth /\ [][NextPassword]_vars

\* C21 as amended: for passwords of at most 72 bytes, change_password(user,
\* old, new) fails with AuthenticationError and leaves the row unchanged when
\* old does not verify against the stored hash; when old verifies, only the
\* hash is replaced, and afterwards authenticate_user of an active user
\* succeeds with new and, if new differs from old, fails with
\* AuthenticationError with old.
C21_ChangePasswordShort ==
    [][\A u \in DOMAIN users, old \in PasswordInputs, new \in PasswordInputs :
         (/\ resp'.op = "change_password" /\ resp'.uid = u
          /\ resp'.args = <<old, new>> /\ Short(old) /\ Short(new))
         => /\ ~verify_password(old, users[u].password_hash)
                 => /\ resp'.exc = "AuthenticationError"
                    /\ users' = users
            /\ verify_password(old, users[u].password_hash)
                 => /\ resp'.exc = "none"
                    /\ users' = Put(users, u, [users[u] EXCEPT
                                       !.password_hash = users'[u].password_hash])
                    /\ new # old => ~verify_password(old, users'[u].password_hash)
                    /\ verify_password(new, users'[u].password_hash)
                    /\ users[u].is_active
                         => /\ authenticate_user(users[u].username, new)'.id = u
                            /\ new # old
                                 => authenticate_user(users[u].username, old)'.exc
                                      = "AuthenticationError"]_vars

\* amy has replaced Pw1 by Pw2 and then been refused with Pw1
C21_Witness ==
    /\ resp.op = "authenticate_user"
    /\ resp.args = <<Amy, Pw1>>
    /\ resp.exc = "AuthenticationError"
    /\ users[1].is_active
    /\ verify_password(Pw2, users[1].password_hash)
    /\ users[1].password_hash # AmyUser.password_hash

\* C21 as stated, for every password
C21_ChangePasswordAll ==
    [][\A u \in DOMAIN users, old \in PasswordInputs, new \in PasswordInputs :
         (/\ resp'.op = "change_password" /\ resp'.uid = u
          /\ resp'.args = <<old, new>>)
         => /\ ~verify_password(old, users[u].password_hash)
                 => /\ resp'.exc = "AuthenticationError"
                    /\ users' = users
            /\ verify_password(old, users[u].password_hash)
                 => /\ resp'.exc = "none"
                    /\ verify_password(new, users'[u].password_hash)
                    /\ users[u].is_active
                         => /\ authenticate_user(users[u].username, new)'.id = u
                            /\ new # old
                                 => authenticate_user(users[u].username, old)'.exc
                                      = "AuthenticationError"]_vars

---------------------------------------------------------------------------
(* SpecAtomic: two workers run update_user and update_post concurrently,
   each time with both fields given. The assignments to the loaded object
   stay in the worker's session until db.session.commit(); the store
   serializes the commits. reg[w] is the session of worker w. *)

\* update_user up to the commit: the row is loaded, the email is looked up
\* and assigned, the password is hashed and assigned. DuplicateUserError and
\* the ValueError of bcrypt leave the function without a rollback, and the
\* session is dropped with the request
update_user_pending(user_id, email, password, salt, strict, table) ==
    IF user_id \notin DOMAIN table
      THEN [exc |-> "UserNotFoundError", field |-> "none", email |-> None, hash |-> None]
    ELSE IF /\ Truthy(email)
            /\ \E u \in DOMAIN table \ {user_id} : table[u].email = Lower(email)
      THEN [exc |-> "DuplicateUserError", field |-> "email", email |-> None, hash |-> None]
    ELSE IF Truthy(password) /\ TooLong(password, strict)
      THEN [exc |-> "ValueError", field |-> "none", email |-> None, hash |-> None]
    ELSE [exc |-> "none", field |-> "none",
          email |-> IF Truthy(email) THEN Lower(email) ELSE None,
          hash |-> IF Truthy(password) THEN hash_password(password, salt) ELSE None]

\* a commit of update_user that keeps the password when the email is refused
update_user_commit_KeepsPassword(user_id, email, hash, table) ==
    IF user_id \notin DOMAIN table
      THEN [exc |-> "DatabaseError", field |-> "none", users |-> table]
    ELSE
      LET row == [table[user_id] EXCEPT !.email = IF email # None THEN email ELSE @,
                                        !.password_hash = IF hash # None THEN hash ELSE @]
          failed == UserViolation(row, table, user_id)
      IN  IF failed = "none"
            THEN [exc |-> "none", field |-> "none", users |-> Put(table, user_id, row)]
          ELSE [exc |-> "DuplicateUserError", field |-> "email",
                users |-> Put(table, user_id,
                              [table[user_id] EXCEPT !.password_hash = row.password_hash])]

\* db.session.commit() of update_user and its except clauses: one UPDATE of
\* the assigned columns, which changes the row whole or, after the
\* rollback, not at all. The UPDATE of a row deleted meanwhile matches no
\* row (StaleDataError)
update_user_commit(user_id, email, hash, table) ==
    IF user_id \notin DOMAIN table
      THEN [exc |-> "DatabaseError", field |-> "none", users |-> table]
    ELSE
      LET row == [table[user_id] EXCEPT !.email = IF email # None THEN email ELSE @,
                                        !.password_hash = IF hash # None THEN hash ELSE @]
          failed == UserViolation(row, table, user_id)
          text == IntegrityErrorText(failed, IF email # None THEN UserUpdateColumns ELSE {})
      IN  IF failed = "none"
            THEN [exc |-> "none", field |-> "none", users |-> Put(table, user_id, row)]
          ELSE IF "email" \in text
            THEN [exc |-> "DuplicateUserError", field |-> "email", users |-> table]
          ELSE [exc |-> "DatabaseError", field |-> "none", users |-> table]

\* update_post up to the commit
update_post_pending(post_id, user_id, title, content, table) ==
    IF post_id \notin DOMAIN table THEN "PostNotFoundError"
    ELSE IF ~is_author(table[post_id], user_id) THEN "AuthorizationError"
    ELSE "none"

\* db.session.commit() of update_post and its except clause
update_post_commit(post_id, title, content, table) ==
    IF post_id \notin DOMAIN table
      THEN [exc |-> "DatabaseError", posts |-> table]
    ELSE
      LET row == [table[post_id] EXCEPT !.title = IF title # None THEN title ELSE @,
                                        !.content = IF content # None THEN content ELSE @]
      IN  IF PostChecksOK(row)
            THEN [exc |-> "none", posts |-> Put(table, post_id, Touched(table[post_id], row))]
            ELSE [exc |-> "DatabaseError", posts |-> table]

\* the session of a worker between the assignments and the commit
Session(kind, id, first, second) ==
    [pc |-> "dirty", kind |-> kind, id |-> id, first |-> first, second |-> second]

\* worker w calls update_user and reaches the commit, or leaves with an
\* exception
UpdateUserBegin(w, user_id, email, password, salt, strict) ==
    /\ reg[w].pc = "idle"
    /\ LET r == update_user_pending(user_id, email, password, salt, strict, users)
       IN  /\ reg' = [reg EXCEPT ![w] = IF r.exc = "none"
                                          THEN Session("user", user_id, r.email, r.hash)
                                          ELSE NoReg]
           /\ resp' = [NoResponse("update_user_begin") EXCEPT
                         !.exc = r.exc, !.error = r.field, !.uid = w,
                         !.args = <<user_id, email, password>>]
    /\ UNCHANGED <<users, posts, issued, now, ticks>>

UpdateUserCommit(w) ==
    /\ reg[w].pc = "dirty"
    /\ reg[w].kind = "user"
    /\ LET r == update_user_commit(reg[w].id, reg[w].first, reg[w].second, users)
       IN  /\ users' = r.users
           /\ resp' = [NoResponse("update_user_commit") EXCEPT
                         !.exc = r.exc, !.error = r.field, !.uid = w,
                         !.args = <<reg[w].id, reg[w].first, reg[w].second>>]
    /\ reg' = [reg EXCEPT ![w] = NoReg]
    /\ UNCHANGED <<posts, issued, now, ticks>>

UpdatePostBegin(w, post_id, user_id, title, content) ==
    /\ reg[w].pc = "idle"
    /\ LET exc == update_post_pending(post_id, user_id, title, content, posts)
       IN  /\ reg' = [reg EXCEPT ![w] = IF exc = "none"
                                          THEN Session("post", post_id, title, content)
                                          ELSE NoReg]
           /\ resp' = [NoResponse("update_post_begin") EXCEPT
                         !.exc = exc, !.uid = w, !.args = <<post_id, title, content>>]
    /\ UNCHANGED <<users, posts, issued, now, ticks>>

UpdatePostCommit(w) ==
    /\ reg[w].pc = "dirty"
    /\ reg[w].kind = "post"
    /\ LET r == update_post_commit(reg[w].id, reg[w].first, reg[w].second, posts)
       IN  /\ posts' = r.posts
           /\ resp' = [NoResponse("update_post_commit") EXCEPT
                         !.exc = r.exc, !.uid = w,
                         !.args = <<reg[w].id, reg[w].first, reg[w].second>>]
    /\ reg' = [reg EXCEPT ![w] = NoReg]
    /\ UNCHANGED <<users, issued, now, ticks>>

InitAtomic ==
    /\ now = 0
    /\ users = (1 :> AmyUser @@ 2 :> BobUser)
    /\ posts = (1 :> Post(Title1, Content1, 1))
    /\ issued = {}
    /\ ticks = 0
    /\ resp = NoResponse("init")
    /\ reg = [w \in Workers |-> NoReg]

NextAtomic ==
    \/ \E w \in Workers, u \in DOMAIN users, e \in {AdmMail, NoAtMail},
          p \in {Pw2, LongPwA}, strict \in BOOLEAN :
          UpdateUserBegin(w, u, e, p, w + 1, strict)
    \/ \E w \in Workers : UpdateUserCommit(w)
    \/ \E w \in Workers, c \in {Content2, ShortContent} :
          UpdatePostBegin(w, 1, 1, Title2, c)
    \/ \E w \in Workers : UpdatePostCommit(w)
    \/ DeletePostCall(1, 1, "user")

SpecAtomic == InitAtomic /\ [][NextAtomic]_vars

\* C22: a call of update_user with email and password, or of update_post
\* with title and content, that fails, at the commit included, changes
\* neither field, and one that succeeds changes both; no other step changes
\* a row, so that every later read finds both fields updated or neither.
C22_AllOrNothing ==
    [][/\ \A w \in Workers :
            (resp'.uid = w /\ resp'.op = "update_user_commit")
            => IF resp'.exc = "none"
                 THEN /\ users'[reg[w].id].email = reg[w].first
                      /\ users'[reg[w].id].password_hash = reg[w].second
                      /\ users' = Put(users, reg[w].id, users'[reg[w].id])
                 ELSE users' = users
       /\ \A w \in Workers :
            (resp'.uid = w /\ resp'.op = "update_post_commit")
            => IF resp'.exc = "none"
                 THEN /\ posts'[reg[w].id].title = reg[w].first
                      /\ posts'[reg[w].id].content = reg[w].second
                      /\ posts' = Put(posts, reg[w].id, posts'[reg[w].id])
                 ELSE posts' = posts
       /\ resp'.op \in {"update_user_begin", "update_post_begin"}
            => users' = users /\ posts' = posts
       /\ users' # users => resp'.op = "update_user_commit" /\ resp'.exc = "none"
       /\ posts' # posts
            => \/ resp'.op = "update_post_commit" /\ resp'.exc = "none"
               \/ resp'.op = "delete_post_call"]_vars

\* bob's commit of a new email and password has failed on the email amy's
\* worker committed after bob's lookup: bob's row is as it was
C22_Witness ==
    /\ resp.op = "update_user_commit"
    /\ resp.exc = "DuplicateUserError"
    /\ resp.args = <<2, AdmMail, hash_password(Pw2, resp.uid + 1)>>
    /\ users[1].email = AdmMail
    /\ users[1].password_hash # AmyUser.password_hash
    /\ users[2] = BobUser

---------------------------------------------------------------------------
(* SpecOwners: the admin and two users create and delete posts while users
   are deactivated, removed and registered again; the tokens issued at
   time 0 stay in the clients' hands *)

NextOwners ==
    \/ \E tok \in issued : CreatePost(tok, TRUE, Title1, Content1)
    \/ \E tok \in issued, id \in 1..MaxPosts : DeletePost(tok, id)
    \/ \E u \in DOMAIN users : DeleteUser(u)
    \/ \E u \in DOMAIN users : DeactivateUser(u)
    \/ Register(TRUE, Bob, BobMail, Pw2, 1)

SpecOwners == Init /\ [][NextOwners]_vars

\* C23: after every step the author_id of each post is the id of a user in
\* the store, and the removal of a user removes the posts of that user and
\* no other post.
C23_AuthorExists ==
    [][/\ \A p \in DOMAIN posts' : posts'[p].author_id \in DOMAIN users'
       /\ resp'.op = "delete_user"
            => /\ resp'.uid \notin DOMAIN users'
               /\ posts' = Drop(posts, {p \in DOMAIN posts :
                                          posts[p].author_id = resp'.uid})]_vars

\* amy and bob have each created a post and amy has been removed: her post
\* is gone and bob's is left
C23_Witness ==
    /\ resp.op = "delete_user"
    /\ resp.uid = 2
    /\ 2 \notin DOMAIN users
    /\ DOMAIN posts = {2}
    /\ posts[2].author_id = 3

---------------------------------------------------------------------------
(* C24, over SpecGuard *)

\* the last request went to a protected route and its authentication
\* failed: the token is missing, invalid or expired, or its subject is not
\* in the store or is inactive
AuthFailed ==
    /\ resp.op \in ProtectedOps
    /\ \/ BadToken(resp.tok)
       \/ /\ verify_jwt_in_request(resp.tok, FALSE) = "ok"
          /\ \/ get_jwt_identity(resp.tok) \notin DOMAIN users
             \/ ~users[get_jwt_identity(resp.tok)].is_active

\* C24: on every protected route the response to a failed authentication
\* has status 401, and two failed authentications that follow one another
\* are answered with the same status and the same error message, whatever
\* check failed in each.
C24_UniformAuthFailure ==
    [][(AuthFailed /\ AuthFailed')
         => /\ resp'.status = 401
            /\ resp'.status = resp.status
            /\ resp'.error = resp.error]_vars

---------------------------------------------------------------------------
(* SpecSignIn: POST /auth/login with identifiers that name amy, bob or
   nobody and with right and wrong passwords, while users are registered
   and deactivated. resp.args is the body of the request. *)

LoginBody(username, password) ==
    HandleBody("login", NoToken, login(TRUE, username, password), <<username, password>>)

NextSignIn ==
    \/ \E u \in {Amy, AmyMailCaps, Bob, BobMailCaps, Adm}, p \in {Pw1, Pw2, WeakPw} :
          LoginBody(u, p)
    \/ \E p \in {Pw1, Pw2} : Register(TRUE, Bob, BobMail, p, 1)
    \/ \E u \in DOMAIN users : DeactivateUser(u)

SpecSignIn == InitAuth /\ [][NextSignIn]_vars

\* the last request was a login that failed
LoginFailed == resp.op = "login" /\ resp.status # 200

\* the identifier of the last request names an inactive user
NamesInactive == \E u \in Named(resp.args[1]) : ~users[u].is_active

---------------------------------------------------------------------------
(* SpecListing: a client reads pages 1..pages of get_all_posts one call
   after the other over a store that does not change meanwhile; each call
   is a query of its own, whose rows with equal created_at come in the
   order the store chooses for that query *)

\* the calls get_all_posts(1, per_page), ..., get_all_posts(pages, per_page);
\* orders[k] is the order of the rows in the k-th query. args holds per_page
\* and the items of each page
GetAllPages(per_page, orders) ==
    LET pages == get_all_posts(PyInt(1), PyInt(per_page), orders[1]).pages
    IN  /\ resp' = [NoResponse("get_all_pages") EXCEPT
                      !.args = <<per_page,
                                 [k \in 1..pages |->
                                    get_all_posts(PyInt(k), PyInt(per_page), orders[k]).items]>>]
        /\ UNCHANGED <<users, posts, issued, now, ticks, reg>>

\* the number of queries the client makes: the first page, and the pages
\* after it that the first answer announces
Queries(per_page) ==
    LET total == Cardinality(DOMAIN posts)
    IN  IF total = 0 THEN 1 ELSE (total + per_page - 1) \div per_page

NextListing ==
    \/ \E t \in {Title1, Title2} : CreatePostCall(t, Content1, 1)
    \/ \E id \in 1..MaxPosts : DeletePostCall(id, 1, "user")
    \/ \E per_page \in 1..MaxPosts :
          \E orders \in [1..Queries(per_page) -> NewestFirst] : GetAllPages(per_page, orders)
    \/ Tick(1)

SpecListing == InitPages /\ [][NextListing]_vars

\* the items of the pages read, one after the other
Listed ==
    LET all[k \in 0..Len(resp.args[2])] ==
          IF k = 0 THEN << >> ELSE all[k - 1] \o resp.args[2][k]
    IN  all[Len(resp.args[2])]

DistinctTimes ==
    \A p, q \in DOMAIN posts : p # q => posts[p].created_at # posts[q].created_at

\* C26 as amended: the items of a page are ordered by created_at descending,
\* every page but the last holds per_page items, and when no two posts have
\* the same created_at the pages 1..pages taken together contain every post
\* exactly once, newest first.
C26_NewestFirstPages ==
    resp.op = "get_all_pages"
    => /\ \A k \in DOMAIN resp.args[2] :
            /\ \A i, j \in DOMAIN resp.args[2][k] :
                 i < j => posts[resp.args[2][k][i]].created_at
                            >= posts[resp.args[2][k][j]].created_at
            /\ k < Len(resp.args[2]) => Len(resp.args[2][k]) = resp.args[1]
       /\ Len(Listed) = Cardinality(DOMAIN posts)
       /\ DistinctTimes
            => /\ {Listed[i] : i \in DOMAIN Listed} = DOMAIN posts
               /\ \A i, j \in DOMAIN Listed :
                    i < j => posts[Listed[i]].created_at > posts[Listed[j]].created_at

\* two posts created at different times, read on two pages of one item
C26_Witness ==
    /\ resp.op = "get_all_pages"
    /\ resp.args[1] = 1
    /\ Len(resp.args[2]) = 2
    /\ DOMAIN posts = {1, 2}
    /\ posts[1].created_at < posts[2].created_at
    /\ Listed = <<2, 1>>

\* C26 as stated: the items are ordered by created_at descending and, among
\* equal created_at, by id descending, and the pages 1..pages taken together
\* contain every post exactly once.
C26_TieBreakById ==
    resp.op = "get_all_pages"
    => /\ {Listed[i] : i \in DOMAIN Listed} = DOMAIN posts
       /\ Len(Listed) = Cardinality(DOMAIN posts)
       /\ \A i, j \in DOMAIN Listed :
            i < j => \/ posts[Listed[i]].created_at > posts[Listed[j]].created_at
                     \/ /\ posts[Listed[i]].created_at = posts[Listed[j]].created_at
                        /\ Listed[i] > Listed[j]

---------------------------------------------------------------------------
(* SpecOptional: a route wrapped by optional_jwt, called with every kind of
   header while amy logs in, is deactivated and the clock passes the
   lifetime of her access token. resp.args holds the number of calls of the
   view and what verify_jwt_in_request made of the header. *)

OptionalRoute(tok) ==
    LET r == optional_jwt(tok, optional_route(tok))
    IN  HandleBody("optional_route", tok, r.response, <<r.calls, r.verified>>)

NextOptional ==
    \/ \E tok \in Presentable : OptionalRoute(tok)
    \/ \E p \in {Pw1, Pw2} : Login(TRUE, Amy, p)
    \/ \E u \in DOMAIN users : DeactivateUser(u)
    \/ \E d \in {1, AccessTTL} : Tick(d)

SpecOptional == InitGuard /\ [][NextOptional]_vars

\* C27: the view wrapped by optional_jwt is called exactly once for every
\* request, with no token, a valid one, a malformed or wrongly signed one,
\* an expired one or a refresh token, and the response is the view's: the
\* current user's for a valid access token of an active user, the guest's
\* otherwise.
C27_OptionalNeverRejects ==
    resp.op = "optional_route"
    => /\ resp.args[1] = 1
       /\ resp.status = 200
       /\ resp.uid # 0 <=> /\ resp.args[2] = "ok"
                           /\ resp.tok.form = "jwt"
                           /\ resp.tok.sub \in DOMAIN users
                           /\ users[resp.tok.sub].is_active
       /\ resp.uid # 0 => resp.uid = resp.tok.sub

\* the view has been called for a request with an expired access token
C27_Witness ==
    /\ resp.op = "optional_route"
    /\ resp.tok.form = "jwt"
    /\ resp.tok.kind = "access"
    /\ resp.tok.sig = "server"
    /\ TokenExp(resp.tok) <= now
    /\ resp.args = <<1, "ExpiredSignatureError">>
    /\ resp.status = 200
    /\ resp.uid = 0

---------------------------------------------------------------------------
(* SpecCorrupt: amy's row holds a password_hash that no call of
   hash_password wrote (the column is a string of up to 255 characters with
   no constraint on its content): either one bcrypt cannot parse, or one
   whose digest is damaged behind an intact salt *)

UnparsableHash == Pw1

DamagedHash == BcryptPrefix \o <<"1">> \o <<"?">>

CorruptHashes == {UnparsableHash, DamagedHash}

InitCorrupt ==
    /\ \E h \in CorruptHashes : users = (1 :> [AmyUser EXCEPT !.password_hash = h])
    /\ posts = << >>
    /\ issued = {}
    /\ now = 0
    /\ ticks = 0
    /\ resp = NoResponse("init")
    /\ reg = [w \in Workers |-> NoReg]

NextCorrupt ==
    \/ \E p \in {Pw1, Pw2} : AuthenticateUser(Amy, p)
    \/ \E p \in {Pw1, Pw2} : LoginBody(AmyMail, p)
    \/ \E old \in {Pw1, Pw2}, new \in {Pw1, Pw2}, strict \in BOOLEAN :
          ChangePassword(1, old, new, 2, strict)
    \/ UpdateUser(1, None, Pw2, 3)
    \/ DeactivateUser(1)

SpecCorrupt == InitCorrupt /\ [][NextCorrupt]_vars

\* C28: when the stored password_hash of the user is malformed or corrupt,
\* authenticate_user (for an active user) and change_password fail with
\* AuthenticationError and leave the store unchanged.
C28_CorruptHashIsMismatch ==
    [][(/\ resp'.op \in {"authenticate_user", "change_password"}
        /\ users[1].password_hash \in CorruptHashes
        /\ users[1].is_active)
       => /\ resp'.exc = "AuthenticationError"
          /\ users' = users]_vars

---------------------------------------------------------------------------
(* SpecRoles: every route that writes, called with bodies that carry a
   role and a username of the client's choice, over the store of
   SpecGuard. resp.args is the body of a registration or profile update. *)

RegisterBody(body, salt) ==
    HandleBody("register", NoToken, register_request(body, salt), <<body>>)

UpdateProfileBody(tok, body, salt) ==
    HandleBody("update_profile", tok, update_profile_request(tok, body, salt), <<body>>)

NextRoles ==
    \/ \E u \in {Bob, Adm}, role \in Roles :
          RegisterBody([username |-> u, email |-> BobMail, password |-> Pw2, role |-> role], 1)
    \/ \E u \in {Amy, Adm}, p \in {Pw1, Pw2} : Login(TRUE, u, p)
    \/ \E tok \in issued : Refresh(tok)
    \/ \E tok \in issued, e \in {None, AmyMailCaps}, p \in {None, Pw2}, role \in Roles :
          UpdateProfileBody(tok, [email |-> e, password |-> p, username |-> Adm,
                                  role |-> role], 2)
    \/ \E tok \in issued : CreatePost(tok, TRUE, Title2, Content2)
    \/ \E tok \in issued, id \in 1..MaxPosts : UpdatePost(tok, id, TRUE, Title2, None)
    \/ \E tok \in issued, id \in 1..MaxPosts : DeletePost(tok, id)

SpecRoles == InitGuard /\ [][NextRoles]_vars

\* C29: no request changes the role or the username of an existing user or
\* removes the row its id names, and the only new rows are those a
\* registration adds, each with role 'user' whatever the body asked for.
C29_RolesAreFixed ==
    [][/\ \A u \in DOMAIN users :
            /\ u \in DOMAIN users'
            /\ users'[u].role = users[u].role
            /\ users'[u].username = users[u].username
       /\ \A u \in DOMAIN users' \ DOMAIN users :
            /\ resp'.op = "register"
            /\ resp'.uid = u
            /\ users'[u].role = "user"]_vars

\* a registration whose body asked for the role admin has stored a user
C29_Witness ==
    /\ resp.op = "register"
    /\ resp.status = 201
    /\ resp.args[1].role = "admin"
    /\ resp.uid \in DOMAIN users
    /\ users[resp.uid].role = "user"
    /\ users[resp.uid].username = Lower(Bob)

---------------------------------------------------------------------------
(* SpecRemove: two workers run delete_post concurrently, as the admin or as
   the author, over two posts of amy; each call loads the post and checks
   the caller in one step and deletes and commits in a later one. reg[w] is
   the call of worker w and, once it has ended, its outcome. *)

\* delete_post up to the try block
delete_post_pending(post_id, user_id, user_role, table) ==
    IF post_id \notin DOMAIN table THEN "PostNotFoundError"
    ELSE IF user_role # "admin" /\ ~is_author(table[post_id], user_id)
      THEN "AuthorizationError"
    ELSE "none"

\* a commit that removes every post of the author of the post
delete_post_commit_WholeAuthor(post, post_id, table) ==
    [exc |-> "none",
     posts |-> [k \in {p \in DOMAIN table : table[p].author_id # post.author_id}
                  |-> table[k]]]

\* db.session.delete(post) and db.session.commit(): DELETE FROM posts WHERE
\* id = post_id. When another session has removed the row meanwhile the
\* statement matches no row, which the ORM reports as a warning and not as
\* an exception (the posts mapper has no version counter), so that the
\* commit succeeds and the post loaded before is returned
delete_post_commit(post, post_id, table) ==
    [exc |-> "none", posts |-> Drop(table, {post_id} \cap DOMAIN table)]

DeletePostBegin(w, post_id, user_id, user_role) ==
    /\ reg[w].pc = "idle"
    /\ LET exc == delete_post_pending(post_id, user_id, user_role, posts)
       IN  /\ reg' = [reg EXCEPT ![w] =
                        IF exc = "none"
                          THEN [pc |-> "dirty", id |-> post_id, user |-> user_id,
                                post |-> posts[post_id], exc |-> "none"]
                          ELSE [pc |-> "done", id |-> post_id, user |-> user_id,
                                post |-> None, exc |-> exc]]
           /\ resp' = [NoResponse("delete_post_begin") EXCEPT
                         !.exc = exc, !.uid = w, !.pid = post_id,
                         !.args = <<user_id, user_role>>]
    /\ UNCHANGED <<users, posts, issued, now, ticks>>

DeletePostCommit(w) ==
    /\ reg[w].pc = "dirty"
    /\ LET r == delete_post_commit(reg[w].post, reg[w].id, posts)
       IN  /\ posts' = r.posts
           /\ reg' = [reg EXCEPT ![w].pc = "done", ![w].exc = r.exc]
           /\ resp' = [NoResponse("delete_post_commit") EXCEPT
                         !.exc = r.exc, !.uid = w, !.pid = reg[w].id,
                         !.args = <<reg[w].user>>]
    /\ UNCHANGED <<users, issued, now, ticks>>

\* the posts of the initial store, created at time 0
InitRemovePosts ==
    (1 :> [title |-> Title1, content |-> Content1, author_id |-> 2,
           created_at |-> 0, updated_at |-> 0]
     @@ 2 :> [title |-> Title2, content |-> Content2, author_id |-> 2,
              created_at |-> 0, updated_at |-> 0])

InitRemove ==
    /\ now = 0
    /\ users = (1 :> Admin @@ 2 :> AmyUser)
    /\ posts = InitRemovePosts
    /\ issued = {}
    /\ ticks = 0
    /\ resp = NoResponse("init")
    /\ reg = [w \in Workers |-> NoReg]

NextRemove ==
    \/ \E w \in Workers, id \in DOMAIN InitRemovePosts, u \in DOMAIN users :
          DeletePostBegin(w, id, u, users[u].role)
    \/ \E w \in Workers : DeletePostCommit(w)

SpecRemove == InitRemove /\ [][NextRemove]_vars

\* both workers have ended a call for the same post
BothDone(post_id) == \A w \in Workers : reg[w].pc = "done" /\ reg[w].id = post_id

\* C30 as amended: of two concurrent authorized delete_post calls for the
\* same post, each reports success or fails with PostNotFoundError, at
\* least one reports success, the post is absent afterwards and no other
\* post is removed; both report success when both have loaded the post
\* before either commits.
C30_ConcurrentDelete ==
    \A id \in DOMAIN InitRemovePosts :
       BothDone(id)
       => /\ \A w \in Workers : reg[w].exc \in {"none", "PostNotFoundError"}
          /\ \E w \in Workers : reg[w].exc = "none"
          /\ \A w \in Workers : reg[w].exc = "none" => reg[w].post = InitRemovePosts[id]
          /\ id \notin DOMAIN posts
          /\ posts = Drop(InitRemovePosts, {id})

\* both workers loaded post 1 before either commit, and both report success
C30_Witness ==
    /\ BothDone(1)
    /\ \A w \in Workers : reg[w].exc = "none"
    /\ resp.op = "delete_post_commit"
    /\ posts = Drop(InitRemovePosts, {1})

\* C30 as stated: at most one of the two calls reports success and the
\* other fails with PostNotFoundError or DatabaseError.
C30_AtMostOneSuccess ==
    \A id \in DOMAIN InitRemovePosts :
       BothDone(id)
       => \E w \in Workers :
             /\ reg[w].exc \in {"PostNotFoundError", "DatabaseError"}
             /\ id \notin DOMAIN posts

====
